---- MODULE Spec2Model ----
(***************************************************************************)
(* DevOptima: the self-correction controller (modules/agent_controller.py),*)
(* the Groq client (modules/llm_handler.py) and the local validator        *)
(* (modules/code_parser.py).                                               *)
(*                                                                         *)
(* Text is a sequence of symbols.  A symbol is one character (BACKTICK,    *)
(* " ", "\n") or an indivisible run of characters that no search pattern   *)
(* of the program cuts ("python", "---CODE---", a piece of Python source). *)
(***************************************************************************)
EXTENDS Integers, Sequences, FiniteSets, TLC

\* ------------------------------------------------------------ constants
MAX_ATTEMPTS == 3

MAX_RETRIES == 3

RETRY_DELAY_SECONDS == 2

GROQ_MODEL == "llama-3.3-70b-versatile"

SUPPORTED_MODELS == {"llama-3.3-70b-versatile", "llama-3.1-8b-instant"}

\* ------------------------------------------------------------ bounds
\* How many different error descriptions the service can raise.
NumErrors == 2

ErrorDescriptions == {"e" \o ToString(i) : i \in 1..NumErrors}

\* Model names a caller can pass: the allow-list and one name outside it.
ModelNames == SUPPORTED_MODELS \cup {"other-model"}

\* ------------------------------------------------------------ str | None
None == [none |-> TRUE, text |-> <<>>]

Str(t) == [none |-> FALSE, text |-> t]

\* Python truthiness of a str | None value: None and "" are falsy.
Falsy(v) == v.none \/ v.text = <<>>

\* ------------------------------------------------------------ str methods
Whitespace == {" ", "\n", "\r"}

MatchesAt(s, pat, i) ==
    /\ i >= 1
    /\ i + Len(pat) - 1 <= Len(s)
    /\ \A k \in 1..Len(pat) : s[i + k - 1] = pat[k]

\* Index of the first occurrence of pat in s, 0 when there is none.
Find(s, pat) ==
    LET hits == {i \in 1..Len(s) : MatchesAt(s, pat, i)}
    IN  IF hits = {} THEN 0 ELSE CHOOSE i \in hits : \A j \in hits : i <= j

\* pat in s
Contains(s, pat) == Find(s, pat) # 0

\* s.replace(pat, rep): every non-overlapping occurrence, left to right.
RECURSIVE Replace(_, _, _)
Replace(s, pat, rep) ==
    LET i == Find(s, pat)
    IN  IF i = 0 THEN s
        ELSE SubSeq(s, 1, i - 1) \o rep
             \o Replace(SubSeq(s, i + Len(pat), Len(s)), pat, rep)

\* s.split(pat, 1)[0] and s.split(pat)[0]: the text before the first pat.
Before(s, pat) ==
    LET i == Find(s, pat) IN IF i = 0 THEN s ELSE SubSeq(s, 1, i - 1)

\* s.split(pat, 1)[1]: the text after the first pat (pat occurs in s).
After(s, pat) == SubSeq(s, Find(s, pat) + Len(pat), Len(s))

\* s.split(pat)[1]: the text between the first and the second pat.
SplitSecond(s, pat) == Before(After(s, pat), pat)

RECURSIVE LStrip(_)
LStrip(s) ==
    IF s # <<>> /\ Head(s) \in Whitespace THEN LStrip(Tail(s)) ELSE s

RECURSIVE RStrip(_)
RStrip(s) ==
    IF s # <<>> /\ s[Len(s)] \in Whitespace
    THEN RStrip(SubSeq(s, 1, Len(s) - 1)) ELSE s

\* s.strip()
Strip(s) == RStrip(LStrip(s))

\* ------------------------------------------------------------ literals
CODE_MARKER == <<"---CODE---">>

\* The character U+0060, which a TLA+ string cannot hold.
BACKTICK == "backtick"

FENCE == <<BACKTICK, BACKTICK, BACKTICK>>

PYTHON_FENCE == FENCE \o <<"python">>

\* ------------------------------------------------------------ model output
\* The completions the service can return.
Responses ==
    { <<"---DESCRIPTION---", "\n", "fix applied", "\n", "---CODE---", "\n">>
          \o PYTHON_FENCE \o <<"\n", "print(1)", "\n">> \o FENCE,
      <<"---CODE---", "\n", "def f(:">>,
      PYTHON_FENCE \o <<"\n", "x = 1", "\n", "y = (", "\n">> \o FENCE,
      <<>>,
      <<"---CODE---", "\n">>,
      PYTHON_FENCE \o <<"\n">> \o FENCE,
      <<"hello world">>,
      <<"---CODE---", "\n", "def f(:", "\n", "{error_message}">>,
      <<"x = 1">> }

\* ------------------------------------------------------------ code_parser.py
\* The character U+0000.
NULL_BYTE == "NUL"

\* A sum of a hundred thousand terms: it parses, and is too deep to build.
DEEP_EXPRESSION == "1+1+...+1"

\* Symbols that are, alone on a line, a complete Python statement.
Statements == {"x = 1", "print(1)", "python", "{error_message}", "{previous_code}"}

\* e.msg of the SyntaxError that ast.parse raises at a symbol.
SyntaxMsg(sym) ==
    IF sym = "y = (" THEN "'(' was never closed"
    ELSE IF sym = " " THEN "unexpected indent"
    ELSE "invalid syntax"

\* The lines of a text: the runs of symbols between "\n".
RECURSIVE Lines(_)
Lines(s) ==
    IF Contains(s, <<"\n">>)
    THEN <<Before(s, <<"\n">>)>> \o Lines(After(s, <<"\n">>))
    ELSE <<s>>

RECURSIVE DropTrailingSpaces(_)
DropTrailingSpaces(l) ==
    IF l # <<>> /\ l[Len(l)] = " "
    THEN DropTrailingSpaces(SubSeq(l, 1, Len(l) - 1)) ELSE l

LineParses(l) ==
    LET body == DropTrailingSpaces(l)
    IN  body = <<>> \/ (Len(body) = 1 /\ body[1] \in Statements \cup {DEEP_EXPRESSION})

\* The symbol of a line that does not parse at which the parser stops.
Offending(l) ==
    IF l[1] \in Statements /\ Len(l) > 1 THEN l[2] ELSE l[1]

\* The lineno of a SyntaxError that names no line (None).
NoLine == 0

\* ast.parse(code): the grammar is "each line is blank or one statement".
\* ok, or the exception's class, its msg and, for a SyntaxError, its lineno.
\* A text with a null byte is refused before it is parsed, with a SyntaxError
\* that names no line; a text that parses but nests too deeply fails with
\* RecursionError while the tree is built.
AstParse(code) ==
    LET ls  == Lines(code)
        bad == {i \in 1..Len(ls) : ~LineParses(ls[i])}
    IN  IF \E k \in 1..Len(code) : code[k] = NULL_BYTE
        THEN [ok |-> FALSE, exc |-> "SyntaxError",
              msg |-> "source code string cannot contain null bytes",
              lineno |-> NoLine]
        ELSE IF bad # {}
        THEN LET i == CHOOSE i \in bad : \A j \in bad : i <= j
             IN  [ok |-> FALSE, exc |-> "SyntaxError",
                  msg |-> SyntaxMsg(Offending(ls[i])), lineno |-> i]
        ELSE IF \E k \in 1..Len(code) : code[k] = DEEP_EXPRESSION
        THEN [ok |-> FALSE, exc |-> "RecursionError",
              msg |-> "maximum recursion depth exceeded during ast construction",
              lineno |-> NoLine]
        ELSE [ok |-> TRUE, exc |-> "", msg |-> "", lineno |-> NoLine]

\* f"Syntax Error: {e.msg} on line {e.lineno}"
\* {e.lineno} as the f-string renders it.
LineNoText(e) == IF e.lineno = NoLine THEN "None" ELSE ToString(e.lineno)

SyntaxErrorText(e) ==
    <<"Syntax Error: ", e.msg, " on line ", LineNoText(e)>>

\* f"An unexpected validation error occurred: {e}"
UnexpectedValidationText(e) ==
    <<"An unexpected validation error occurred: ", e.msg>>

\* A validator without its catch-all handler: the exception propagates.
ValidationExceptPropagates(e) == [raised |-> TRUE, value |-> None]

\* except Exception as e (lines 32-34).
ValidationExcept(e) ==
    [raised |-> FALSE, value |-> Str(UnexpectedValidationText(e))]

\* A validator that takes the empty text for a syntax error.
ValidateOutcomeRejectsEmpty(code) ==
    LET r == AstParse(code)
    IN  IF code = <<>>
        THEN [raised |-> FALSE,
              value |-> Str(<<"Syntax Error: ", "empty module", " on line ", "1">>)]
        ELSE IF r.ok THEN [raised |-> FALSE, value |-> None]
        ELSE IF r.exc = "SyntaxError"
        THEN [raised |-> FALSE, value |-> Str(SyntaxErrorText(r))]
        ELSE ValidationExcept(r)

\* How a call of validate_python_code ends, lines 25-34.
ValidateOutcome(code) ==
    LET r == AstParse(code)
    IN  IF r.ok THEN [raised |-> FALSE, value |-> None]
        ELSE IF r.exc = "SyntaxError"
        THEN [raised |-> FALSE, value |-> Str(SyntaxErrorText(r))]
        ELSE ValidationExcept(r)

\* The value validate_python_code returns.
validate_python_code(code) == ValidateOutcome(code).value

\* ------------------------------------------------------------ agent_controller.py
\* The correction-instruction template: fixed text around two placeholders.
SELF_CORRECTION_PROMPT ==
    <<"The code below has a syntax error.", "\n", "{previous_code}", "\n",
      "Error: ", "{error_message}", "\n", "Return the corrected code.">>

\* code.replace("```python", "").replace("```", "").strip()
\* s.replace(pat, rep, 1): the first occurrence only.
ReplaceFirst(s, pat, rep) ==
    LET i == Find(s, pat)
    IN  IF i = 0 THEN s
        ELSE SubSeq(s, 1, i - 1) \o rep \o SubSeq(s, i + Len(pat), Len(s))

\* A fence-stripping step that removes one fence of each kind per pass.
StripFencesFirstOnly(code) ==
    Strip(ReplaceFirst(ReplaceFirst(code, PYTHON_FENCE, <<>>), FENCE, <<>>))

\* .replace("```python", "").replace("```", "").strip()
StripFences(code) ==
    Strip(Replace(Replace(code, PYTHON_FENCE, <<>>), FENCE, <<>>))

parse_code_from_response(response_str) ==
    LET code ==
          IF Contains(response_str, CODE_MARKER)
          THEN Strip(After(response_str, CODE_MARKER))
          ELSE IF Contains(response_str, PYTHON_FENCE)
          THEN Strip(Before(SplitSecond(response_str, PYTHON_FENCE), FENCE))
          ELSE Strip(response_str)
    IN  StripFences(code)

\* SELF_CORRECTION_PROMPT.replace("{previous_code}", generated_code)
\*                       .replace("{error_message}", error_msg)
CorrectionPrompt(previous_code, error_message) ==
    Replace(Replace(SELF_CORRECTION_PROMPT, <<"{previous_code}">>, previous_code),
            <<"{error_message}">>, error_message)

\* ------------------------------------------------------------ llm_handler.py
MissingKeyError == <<"ERROR:", " GROQ_API_KEY not found.">>

UnknownError == <<"ERROR:", " An unknown error occurred after all retries.">>

\* f"ERROR: Failed to communicate with Groq API after {MAX_RETRIES} attempts. Last error: {e}"
ApiFailureText(e) ==
    <<"ERROR:", " Failed to communicate with Groq API after ",
      ToString(MAX_RETRIES), " attempts. Last error: ", e>>

\* f"An unexpected error occurred: {e}"
UnexpectedErrorText(e) == <<"An unexpected error occurred: ", e>>

\* f"USER_CODE:\n```python\n{user_code}\n```"
UserPrompt(code) ==
    <<"USER_CODE:", "\n">> \o PYTHON_FENCE \o <<"\n">> \o code \o <<"\n">> \o FENCE

\* ------------------------------------------------------------ app.py
DESCRIPTION_MARKER == <<"---DESCRIPTION---">>

WARNING_MARKER == <<"---WARNING---">>

SECURITY_SCORE_MARKER == <<"---SECURITY_SCORE---">>

DEBT_GRADE_MARKER == <<"---DEBT_GRADE---">>

ANALYSIS_MARKER == <<"---ANALYSIS---">>

VERDICT_MARKER == <<"---VERDICT---">>

SIMULATION_MARKER == <<"---SIMULATION_DATA---">>

\* The marker of diagram_gen.py line 52; no test of app.py's chain names it.
TREE_DATA_MARKER == <<"---TREE_DATA---">>

JSON_FENCE == FENCE \o <<"json">>

AUDIT_PARSE_ERROR == <<"Error parsing audit report.">>

\* s.split(pat): the pieces of s between the occurrences of pat.
RECURSIVE Split(_, _)
Split(s, pat) ==
    LET i == Find(s, pat)
    IN  IF i = 0 THEN <<s>>
        ELSE <<SubSeq(s, 1, i - 1)>> \o Split(SubSeq(s, i + Len(pat), Len(s)), pat)

\* d[k] = v on a dict: the key is added when it is missing.
SetItem(d, k, v) == [x \in DOMAIN d \cup {k} |-> IF x = k THEN v ELSE d[x]]

\* json.loads.  A JSON document is one symbol of the text; JsonValues gives the
\* value each complete document decodes to, and any other text (empty, cut
\* short, with text around the document) raises JSONDecodeError.
SimulationTrace ==
    [scenario |-> "f(2)", complexityNote |-> "O(1)", outcome |-> "returns 1",
     steps |-> <<[step |-> 1, line |-> "return 1", action |-> "return",
                  variables |-> "x=2"]>>]

JsonValues == [doc \in {"{simulation trace}"} |-> SimulationTrace]

TRUNCATED_DOCUMENT == "{simulation tr"

\* The simulation field: None, or a decoded document.
NoSimulation == [decoded |-> FALSE, value |-> <<>>]

Decoded(v) == [decoded |-> TRUE, value |-> v]

\* A decoder that returns what it has read of a document cut short.
JsonLoadsPartial(s) ==
    IF Len(s) = 1 /\ s[1] \in DOMAIN JsonValues
    THEN [raised |-> FALSE, value |-> JsonValues[s[1]]]
    ELSE IF s = <<TRUNCATED_DOCUMENT>>
    THEN [raised |-> FALSE, value |-> [scenario |-> "f(2)"]]
    ELSE [raised |-> TRUE, value |-> <<>>]

JsonLoads(s) ==
    IF Len(s) = 1 /\ s[1] \in DOMAIN JsonValues
    THEN [raised |-> FALSE, value |-> JsonValues[s[1]]]
    ELSE [raised |-> TRUE, value |-> <<>>]

\* .replace("```json", "").replace("```", "").strip()
StripJsonFences(s) ==
    Strip(Replace(Replace(s, JSON_FENCE, <<>>), FENCE, <<>>))

\* The dict parse_custom_response starts from (lines 65-69).
DefaultDataNoSimulation ==
    [description |-> <<>>, code |-> <<>>, warning |-> <<>>,
     security_score |-> <<"0">>, debt_grade |-> <<"F">>, analysis |-> <<>>,
     verdict |-> <<>>]

DefaultData ==
    [description |-> <<>>, code |-> <<>>, warning |-> <<>>,
     security_score |-> <<"0">>, debt_grade |-> <<"F">>, analysis |-> <<>>,
     verdict |-> <<>>, simulation |-> NoSimulation]

\* How a call of parse_custom_response ends: it returns data, or it raises.
Returns(d) == [raised |-> FALSE, data |-> d]

Raises(d) == [raised |-> TRUE, data |-> d]

\* response_str.replace('\r\n', '\n').strip()
Normalise(response_str) == Strip(Replace(response_str, <<"\r", "\n">>, <<"\n">>))

\* The if/elif chain of lines 73-124, in order: the test of each branch.
DetectorOrderWarningFirst ==
    <<"warning", "description", "audit", "simulation", "code", "tokens">>

DetectorOrder ==
    <<"description", "warning", "audit", "simulation", "code", "tokens">>

Matches(kind, text) ==
    CASE kind = "description" -> Contains(text, DESCRIPTION_MARKER)
      [] kind = "warning"     -> Contains(text, WARNING_MARKER)
      [] kind = "audit"       -> Contains(text, SECURITY_SCORE_MARKER)
      [] kind = "simulation"  -> Contains(text, SIMULATION_MARKER)
      [] kind = "code"        -> Contains(text, CODE_MARKER)
      [] kind = "tokens"      -> Contains(text, <<"def ">>)
                                     \/ Contains(text, <<"import ">>)

\* The branch the chain takes on text, "none" when no test holds.
FirstMatch(text) ==
    LET hits == {i \in 1..Len(DetectorOrder) : Matches(DetectorOrder[i], text)}
    IN  IF hits = {} THEN "none"
        ELSE DetectorOrder[CHOOSE i \in hits : \A j \in hits : i <= j]

\* The code kept with its fences.
CodeAfterMarkerFenced(content) == Strip(After(content, CODE_MARKER))

\* code.strip() then .replace("```python", "").replace("```", "").strip()
CodeAfterMarker(content) == StripFences(Strip(After(content, CODE_MARKER)))

\* Lines 73-83.
ParseDescription(data, text) ==
    LET content_after_desc_tag == After(text, DESCRIPTION_MARKER)
    IN  IF Contains(content_after_desc_tag, CODE_MARKER)
        THEN Returns(SetItem(SetItem(data, "description",
                         Strip(Before(content_after_desc_tag, CODE_MARKER))),
                     "code", CodeAfterMarker(content_after_desc_tag)))
        ELSE Returns(SetItem(data, "description", Strip(content_after_desc_tag)))

\* Lines 86-94: there is no else branch.
ParseWarning(data, text) ==
    LET content_after_warn_tag == After(text, WARNING_MARKER)
    IN  IF Contains(content_after_warn_tag, CODE_MARKER)
        THEN Returns(SetItem(SetItem(data, "warning",
                         Strip(Before(content_after_warn_tag, CODE_MARKER))),
                     "code", CodeAfterMarker(content_after_warn_tag)))
        ELSE Returns(data)

\* An audit branch without its try/except: the IndexError propagates.
AuditExceptPropagates(data) == Raises(data)

\* except Exception: data["analysis"] = "Error parsing audit report."
AuditExcept(data) == Returns(SetItem(data, "analysis", AUDIT_PARSE_ERROR))

\* Lines 97-109: each [1] raises IndexError when its split found no delimiter;
\* the fields assigned before that keep their values.
ParseAudit(data, text) ==
    LET parts == Split(Split(text, SECURITY_SCORE_MARKER)[2], DEBT_GRADE_MARKER)
        d1 == SetItem(data, "security_score", Strip(parts[1]))
    IN  IF Len(parts) < 2 THEN AuditExcept(d1)
        ELSE
        LET parts2 == Split(parts[2], ANALYSIS_MARKER)
            d2 == SetItem(d1, "debt_grade", Strip(parts2[1]))
        IN  IF Len(parts2) < 2 THEN AuditExcept(d2)
            ELSE
            LET parts3 == Split(parts2[2], VERDICT_MARKER)
                d3 == SetItem(d2, "analysis", Strip(parts3[1]))
            IN  IF Len(parts3) < 2 THEN AuditExcept(d3)
                ELSE Returns(SetItem(d3, "verdict", Strip(parts3[2])))

\* A simulation branch without its try/except.
SimulationExceptPropagates(data) == Raises(data)

\* except Exception as e: print(...); data is left as it was.
SimulationExcept(data) == Returns(data)

\* Lines 112-118.
ParseSimulation(data, text) ==
    LET json_str == StripJsonFences(Strip(Split(text, SIMULATION_MARKER)[2]))
        loaded == JsonLoads(json_str)
    IN  IF loaded.raised THEN SimulationExcept(data)
        ELSE Returns(SetItem(data, "simulation", Decoded(loaded.value)))

\* A bare-code branch that keeps the whole text, marker included.
ParseBareCodeWhole(data, text) == Returns(SetItem(data, "code", StripFences(text)))

\* Lines 120-122.
ParseBareCode(data, text) == Returns(SetItem(data, "code", CodeAfterMarker(text)))

\* A code-token branch that keeps the fences.
ParseCodeTokensFenced(data, text) == Returns(SetItem(data, "code", Strip(text)))

\* Lines 124-125.
ParseCodeTokens(data, text) == Returns(SetItem(data, "code", StripFences(text)))

parse_custom_response(response_str) ==
    LET text == Normalise(response_str)
        kind == FirstMatch(text)
    IN  CASE kind = "description" -> ParseDescription(DefaultData, text)
          [] kind = "warning"     -> ParseWarning(DefaultData, text)
          [] kind = "audit"       -> ParseAudit(DefaultData, text)
          [] kind = "simulation"  -> ParseSimulation(DefaultData, text)
          [] kind = "code"        -> ParseBareCode(DefaultData, text)
          [] kind = "tokens"      -> ParseCodeTokens(DefaultData, text)
          [] OTHER                -> Returns(DefaultData)

\* ------------------------------------------------------------ diagram_gen.py
\* The symbol that stands for the JSON document of a tree response; what it
\* decodes to is part of the input of generate_tree_data.
TREE_DOCUMENT == "{tree}"

\* A decoder that returns the part it has read of a document cut short.
LoadTreePartial(s, doc) ==
    IF s = <<"{tree}">>
    THEN [raised |-> FALSE, value |-> doc.value, object |-> doc.object]
    ELSE IF s = <<TRUNCATED_DOCUMENT>>
    THEN [raised |-> FALSE, value |-> [name |-> <<"f">>], object |-> TRUE]
    ELSE [raised |-> TRUE, value |-> <<>>, object |-> FALSE]

\* json.loads at lines 55 and 57: the tree document decodes to doc, which is a
\* JSON object or a JSON array; any other text decodes or raises as JsonLoads.
LoadTree(s, doc) ==
    IF s = <<TREE_DOCUMENT>>
    THEN [raised |-> FALSE, value |-> doc.value, object |-> doc.object]
    ELSE LET loaded == JsonLoads(s)
         IN  [raised |-> loaded.raised, value |-> loaded.value,
              object |-> ~loaded.raised]

\* node.get(key, "")
Get(node, key) == IF key \in DOMAIN node THEN node[key] ELSE <<>>

\* f"{label}\n{sig}"
Label(label, sig) == label \o <<"\n">> \o sig

\* Lines 60-63 of format_nodes: the node itself.
FormatNode(node) ==
    LET label == Get(node, "name")
        sig == Get(node, "sig")
    IN  IF sig # <<>> THEN SetItem(node, "name", Label(label, sig)) ELSE node

\* A format_nodes that does not descend into the children.
FormatNodesRootOnly(node) == FormatNode(node)

\* Lines 59-67.
RECURSIVE format_nodes(_)
format_nodes(node) ==
    LET named == FormatNode(node)
    IN  IF "children" \in DOMAIN named
        THEN SetItem(named, "children",
                     [i \in 1..Len(named.children) |->
                          format_nodes(named.children[i])])
        ELSE named

\* Line 44 and line 75: the trees returned without a decoded document.
EmptyCodeTree == [name |-> <<"Root">>, children |-> <<>>]

ErrorTree == [name |-> <<"Error Parsing Data">>, children |-> <<>>]

\* Lines 50-75 of generate_tree_data, from the response of the service on:
\* the tree returned, and whether the except branch ran.
TreeFromResponse(response_text, doc) ==
    LET json_str ==
            IF Contains(response_text, TREE_DATA_MARKER)
            THEN StripJsonFences(Strip(Split(response_text, TREE_DATA_MARKER)[2]))
            ELSE StripJsonFences(response_text)
        loaded == LoadTree(json_str, doc)
    IN  IF loaded.raised \/ ~loaded.object
        THEN [failed |-> TRUE, tree |-> ErrorTree]
        ELSE [failed |-> FALSE, tree |-> format_nodes(loaded.value)]

\* ------------------------------------------------------------ state
VARIABLES
    api_key,          \* whether GROQ_API_KEY is set (secrets or environment)
    pc,               \* controller: "Generating", "Calling", "Validating",
                      \*             "Accepted" (returned at line 62),
                      \*             "Exhausted" (returned at line 79)
    attempt,          \* the loop variable of autonomous_fix_loop
    current_prompt,
    user_code,
    model_name,
    last_response,
    response,
    generated_code,
    error_msg,
    returned,         \* the value autonomous_fix_loop returned, None before
    toasts,           \* st.toast calls, in order
    st_errors,        \* st.error calls, in order
    cpc,              \* client: "idle", "entry", "request", "returned", "raised"
    c_args,           \* the arguments of the running call_groq_api
    c_attempt,        \* the loop variable of call_groq_api
    c_user_prompt,
    c_ret,            \* the value call_groq_api returned
    c_log,            \* this call's network requests and sleeps, in order
    c_errors,         \* this call's caught APIErrors, in order
    gen_calls,        \* how many times the controller has called call_groq_api
    requests,         \* how many network requests the invocation has issued
    attempts,         \* one record per finished generate/extract/validate round
    parse_pc,         \* parse_custom_response: "idle", "ready", "returned", "raised"
    parse_in,         \* its argument response_str
    parse_out,        \* how the call ended and the dict it built
    tree_pc,          \* generate_tree_data: "idle", "ready", "returned"
    tree_in,          \* its argument python_code, the response of the service
                      \* and what the document in that response decodes to
    tree_out,         \* the tree it returned
    fence_pc,         \* the fence-stripping step: "idle", "ready"
    fence_in,         \* the text it is first applied to
    fence_out,        \* its successive results, each from the one before
    val_pc,           \* validate_python_code: "idle", "ready", "returned", "raised"
    val_in,           \* its argument code
    val_out,          \* the value it returned
    pair_frames,      \* two invocations of autonomous_fix_loop: the locals of each
    pair_calls,       \* the generation calls each of the two has made
    app_code,         \* the application: st.session_state.current_code
    app_out,          \* its stored outputs, one for each st.session_state key
    app_calls,        \* how many times it has called call_groq_api
    app_errors,       \* the st.error notices it has shown
    app_clicks,       \* how many buttons the user has pressed
    app_last          \* the last button pressed and what the validator said

ctl_vars == <<pc, attempt, current_prompt, user_code, model_name, last_response,
              response, generated_code, error_msg, returned, toasts, st_errors>>

client_vars == <<cpc, c_args, c_attempt, c_user_prompt, c_ret, c_log, c_errors>>

hist_vars == <<gen_calls, requests, attempts>>

parse_vars == <<parse_pc, parse_in, parse_out>>

tree_vars == <<tree_pc, tree_in, tree_out>>

fence_vars == <<fence_pc, fence_in, fence_out>>

val_vars == <<val_pc, val_in, val_out>>

pair_vars == <<pair_frames, pair_calls>>

app_vars == <<app_code, app_out, app_calls, app_errors, app_clicks, app_last>>

fn_vars == <<parse_vars, tree_vars, fence_vars, val_vars, pair_vars, app_vars>>

vars == <<api_key, ctl_vars, client_vars, hist_vars, fn_vars>>

InitialPrompts == {<<"REFACTOR_PROMPT">>}

InitialCodes == {<<"def g():", "\n", " ", "return 1">>}

NoArgs == [system_prompt |-> <<>>, user_code |-> <<>>, model_name |-> ""]

Request == [ev |-> "request", seconds |-> 0]

Sleep(seconds) == [ev |-> "sleep", seconds |-> seconds]

\* The module only loads when the default model is on the allow-list
\* (llm_handler.py raises RuntimeError at import otherwise).
ControllerInit ==
    /\ GROQ_MODEL \in SUPPORTED_MODELS
    /\ api_key \in BOOLEAN
    /\ pc = "Generating"
    /\ attempt = 1
    /\ current_prompt \in InitialPrompts
    /\ user_code \in InitialCodes
    /\ model_name \in ModelNames
    /\ last_response = <<>>
    /\ response = <<>>
    /\ generated_code = <<>>
    /\ error_msg = None
    /\ returned = None
    /\ toasts = <<>>
    /\ st_errors = <<>>
    /\ cpc = "idle"
    /\ c_args = NoArgs
    /\ c_attempt = 0
    /\ c_user_prompt = <<>>
    /\ c_ret = None
    /\ c_log = <<>>
    /\ c_errors = <<>>
    /\ gen_calls = 0
    /\ requests = 0
    /\ attempts = <<>>

\* No call of parse_custom_response is under way.
NotParsed == [raised |-> FALSE, data |-> <<>>]

ParseIdle ==
    /\ parse_pc = "idle"
    /\ parse_in = <<>>
    /\ parse_out = NotParsed

\* A JSON object and a JSON array as decoded values.
Object(v) == [object |-> TRUE, value |-> v]

Array(v) == [object |-> FALSE, value |-> v]

NoTreeInput == [python_code |-> <<>>, response |-> <<>>, doc |-> Array(<<>>)]

\* No call of generate_tree_data is under way.
TreeIdle ==
    /\ tree_pc = "idle"
    /\ tree_in = NoTreeInput
    /\ tree_out = <<>>

\* The fence-stripping step is not being exercised.
FenceIdle ==
    /\ fence_pc = "idle"
    /\ fence_in = <<>>
    /\ fence_out = <<>>

\* No separate call of validate_python_code is under way.
ValidatorIdle ==
    /\ val_pc = "idle"
    /\ val_in = <<>>
    /\ val_out = None

\* No pair of concurrent invocations is under way.
PairIdle ==
    /\ pair_frames = <<>>
    /\ pair_calls = <<>>

\* No button has been pressed yet.
NoClick == [action |-> "", reached |-> FALSE, error |-> None]

\* The application is not running.
AppIdle ==
    /\ app_code = <<>>
    /\ app_out = <<>>
    /\ app_calls = 0
    /\ app_errors = <<>>
    /\ app_clicks = 0
    /\ app_last = NoClick

\* Nothing but the controller and its client runs.
OthersIdle ==
    ParseIdle /\ TreeIdle /\ FenceIdle /\ ValidatorIdle /\ PairIdle /\ AppIdle

Init == ControllerInit /\ OthersIdle

\* ------------------------------------------------------------ call_groq_api
\* A client that does not check for the key.
ClientAvailableUnchecked == TRUE

\* if not client: return "ERROR: GROQ_API_KEY not found."
ClientAvailable == api_key

\* A client that sleeps after the last failed request too, and so leaves the loop.
SleepsBeforeRetryAlways(a) == a < MAX_RETRIES

\* A client that gives up one failed request early.
SleepsBeforeRetryGivesUpEarly(a) == a < MAX_RETRIES - 2

\* if attempt < MAX_RETRIES - 1
SleepsBeforeRetry(a) == a < MAX_RETRIES - 1

\* A backoff that does not grow with the attempt.
BackoffDelayConstant(a) == RETRY_DELAY_SECONDS

\* RETRY_DELAY_SECONDS * (attempt + 1)
BackoffDelay(a) == RETRY_DELAY_SECONDS * (a + 1)

\* for attempt in range(MAX_RETRIES)
RetryLoopContinues(a) == a < MAX_RETRIES

\* The text returned when the last retry fails with APIError e.
ExhaustedRetriesText(e) == ApiFailureText(e)

\* A client without the catch-all handler: the exception propagates.
UnexpectedPropagates(e) == [cpc |-> "raised", ret |-> None]

\* except Exception as e: the handler returns; nothing propagates.
UnexpectedOutcome(e) == [cpc |-> "returned", ret |-> Str(UnexpectedErrorText(e))]

\* Every text call_groq_api can return.
ClientTexts ==
    Responses \cup {MissingKeyError, UnknownError}
        \cup {ExhaustedRetriesText(e) : e \in ErrorDescriptions}
        \cup {UnexpectedErrorText(e) : e \in ErrorDescriptions}

\* parse_code_from_response, validate_python_code and the rebuilt prompt,
\* evaluated once for each text that can reach them.
ExtractedCode == [r \in ClientTexts |-> parse_code_from_response(r)]

Diagnostic ==
    [c \in {ExtractedCode[r] : r \in ClientTexts} |-> validate_python_code(c)]

CorrectionPrompts ==
    [p \in {<<c, Diagnostic[c].text>> : c \in DOMAIN Diagnostic}
        |-> CorrectionPrompt(p[1], p[2])]

\* Lines 45-51: get the client; without a key return at once.
ClientEntry ==
    /\ cpc = "entry"
    /\ IF ~ClientAvailable
       THEN /\ cpc' = "returned"
            /\ c_ret' = Str(MissingKeyError)
            /\ UNCHANGED <<c_user_prompt, c_attempt>>
       ELSE /\ cpc' = "request"
            /\ c_user_prompt' = UserPrompt(c_args.user_code)
            /\ c_attempt' = 0
            /\ UNCHANGED c_ret
    /\ UNCHANGED <<fn_vars, api_key, ctl_vars, c_args, c_log, c_errors, hist_vars>>

\* Lines 54-66: the request succeeds and its content is returned.
RequestSucceeds ==
    /\ cpc = "request"
    /\ \E r \in Responses :
         /\ c_ret' = Str(r)
         /\ c_log' = Append(c_log, Request)
         /\ cpc' = "returned"
    /\ requests' = requests + 1
    /\ UNCHANGED <<fn_vars, api_key, ctl_vars, c_args, c_attempt, c_user_prompt, c_errors,
                   gen_calls, attempts>>

\* Lines 68-74 and the loop head: the request raises APIError e.
RequestApiError ==
    /\ cpc = "request"
    /\ \E e \in ErrorDescriptions :
         /\ c_errors' = Append(c_errors, e)
         /\ IF SleepsBeforeRetry(c_attempt)
            THEN /\ c_log' = c_log \o <<Request, Sleep(BackoffDelay(c_attempt))>>
                 /\ c_attempt' = c_attempt + 1
                 /\ IF RetryLoopContinues(c_attempt + 1)
                    THEN cpc' = "request" /\ UNCHANGED c_ret
                    ELSE cpc' = "returned" /\ c_ret' = Str(UnknownError)
            ELSE /\ c_log' = Append(c_log, Request)
                 /\ c_ret' = Str(ExhaustedRetriesText(e))
                 /\ cpc' = "returned"
                 /\ UNCHANGED c_attempt
    /\ requests' = requests + 1
    /\ UNCHANGED <<fn_vars, api_key, ctl_vars, c_args, c_user_prompt, gen_calls, attempts>>

\* Lines 75-77: the request raises any other Exception e.
RequestUnexpectedError ==
    /\ cpc = "request"
    /\ \E e \in ErrorDescriptions :
         /\ cpc' = UnexpectedOutcome(e).cpc
         /\ c_ret' = UnexpectedOutcome(e).ret
         /\ c_log' = Append(c_log, Request)
    /\ requests' = requests + 1
    /\ UNCHANGED <<fn_vars, api_key, ctl_vars, c_args, c_attempt, c_user_prompt, c_errors,
                   gen_calls, attempts>>

\* ------------------------------------------------------------ autonomous_fix_loop
\* A loop that runs one iteration too many.
LoopContinuesOffByOne(a) == a < MAX_ATTEMPTS + 1

\* for attempt in range(1, MAX_ATTEMPTS + 1): there is a next iteration.
LoopContinues(a) == a < MAX_ATTEMPTS

\* A loop whose counter skips a number.
NextAttemptSkips(a) == a + 2

\* for attempt in range(1, MAX_ATTEMPTS + 1): the next value of attempt.
NextAttempt(a) == a + 1

\* An exit test that also lets the last attempt through.
ValidationPassedOrLast == Falsy(error_msg) \/ attempt = MAX_ATTEMPTS

\* Line 58: if not error_msg
ValidationPassed == Falsy(error_msg)

\* A success exit that returns the extracted code, not the raw response.
AcceptedValueExtracted == generated_code

\* Line 62: return response
AcceptedValue == response

\* A failure exit that returns the first response, not the last.
ExhaustedValueFirst == attempts[1].response

\* A failure exit that tells the user nothing.
ExhaustionNoticeSilent == <<>>

\* Line 78: st.error(...)
ExhaustionNotice == <<"Autonomous Agent failed to generate valid code">>

\* Line 79: return last_response
ExhaustedValue == last_response

\* A rebuilt prompt that keeps embedding the first attempt's code and error.
NextPromptStale == CorrectionPrompts[<<attempts[1].code, attempts[1].error.text>>]

\* Lines 68-72: the prompt of the next iteration.
NextPrompt == CorrectionPrompts[<<generated_code, error_msg.text>>]

\* Line 76: user_code = ""
NextUserCode == <<>>

\* Lines 43-48: toast on a retry, then call call_groq_api.
Generate ==
    /\ pc = "Generating"
    /\ toasts' = IF attempt > 1 THEN Append(toasts, "self-correcting") ELSE toasts
    /\ c_args' = [system_prompt |-> current_prompt, user_code |-> user_code,
                  model_name |-> model_name]
    /\ cpc' = "entry"
    /\ c_ret' = None
    /\ c_log' = <<>>
    /\ c_errors' = <<>>
    /\ gen_calls' = gen_calls + 1
    /\ pc' = "Calling"
    /\ UNCHANGED <<fn_vars, api_key, attempt, current_prompt, user_code, model_name,
                   last_response, response, generated_code, error_msg, returned,
                   st_errors, c_attempt, c_user_prompt, requests, attempts>>

\* Lines 48-56: take the client's value, extract the code, validate it.
Validate ==
    /\ pc = "Calling"
    /\ cpc = "returned"
    /\ LET code  == ExtractedCode[c_ret.text]
           error == Diagnostic[code]
       IN  /\ response' = c_ret.text
           /\ last_response' = c_ret.text
           /\ generated_code' = code
           /\ error_msg' = error
           /\ attempts' = Append(attempts,
                                 [prompt |-> c_args.system_prompt,
                                  user_code |-> c_args.user_code,
                                  response |-> c_ret.text,
                                  code |-> code,
                                  error |-> error])
    /\ cpc' = "idle"
    /\ pc' = "Validating"
    /\ UNCHANGED <<fn_vars, api_key, attempt, current_prompt, user_code, model_name,
                   returned, toasts, st_errors, c_args, c_attempt, c_user_prompt,
                   c_ret, c_log, c_errors, gen_calls, requests>>

\* Lines 58-62: if not error_msg: return response
Accept ==
    /\ pc = "Validating"
    /\ ValidationPassed
    /\ toasts' = IF attempt > 1 THEN Append(toasts, "successful") ELSE toasts
    /\ returned' = Str(AcceptedValue)
    /\ pc' = "Accepted"
    /\ UNCHANGED <<fn_vars, api_key, attempt, current_prompt, user_code, model_name,
                   last_response, response, generated_code, error_msg, st_errors,
                   client_vars, hist_vars>>

\* Lines 64-76 and the loop head: rebuild the prompt, go round again.
Retry ==
    /\ pc = "Validating"
    /\ ~ValidationPassed
    /\ LoopContinues(attempt)
    /\ current_prompt' = NextPrompt
    /\ user_code' = NextUserCode
    /\ attempt' = NextAttempt(attempt)
    /\ pc' = "Generating"
    /\ UNCHANGED <<fn_vars, api_key, model_name, last_response, response, generated_code,
                   error_msg, returned, toasts, st_errors, client_vars, hist_vars>>

\* Lines 64-79: the last iteration failed; st.error, return last_response.
Exhaust ==
    /\ pc = "Validating"
    /\ ~ValidationPassed
    /\ ~LoopContinues(attempt)
    /\ current_prompt' = NextPrompt
    /\ user_code' = NextUserCode
    /\ st_errors' = st_errors \o ExhaustionNotice
    /\ returned' = Str(ExhaustedValue)
    /\ pc' = "Exhausted"
    /\ UNCHANGED <<fn_vars, api_key, attempt, model_name, last_response, response,
                   generated_code, error_msg, toasts, client_vars, hist_vars>>

Next ==
    \/ Generate
    \/ ClientEntry
    \/ RequestSucceeds
    \/ RequestApiError
    \/ RequestUnexpectedError
    \/ Validate
    \/ Accept
    \/ Retry
    \/ Exhaust

Spec == Init /\ [][Next]_vars

\* One invocation runs on the calling thread: every step that can be taken is
\* taken (a request returns or raises, a sleep ends).
FairSpec == Spec /\ WF_vars(Next)

\* ------------------------------------------------------------ parse_custom_response
\* The response texts parse_custom_response is applied to: every text of up to
\* MaxChunks chunks, and the responses the prompts ask for.
MaxChunks == 3

FuzzChunks ==
    { DESCRIPTION_MARKER, CODE_MARKER, WARNING_MARKER, SECURITY_SCORE_MARKER,
      DEBT_GRADE_MARKER, ANALYSIS_MARKER, VERDICT_MARKER, SIMULATION_MARKER,
      <<"\n">>, <<"fix applied">>, <<"def ", "f(): pass">>,
      <<"{simulation trace}">>, <<TRUNCATED_DOCUMENT>> }

RECURSIVE FuzzInputs(_)
FuzzInputs(n) ==
    IF n = 0 THEN {<<>>}
    ELSE LET shorter == FuzzInputs(n - 1)
         IN  shorter \cup {t \o c : t \in shorter, c \in FuzzChunks}

ScenarioA ==
    DESCRIPTION_MARKER \o <<"\n", "fix applied", "\n">> \o CODE_MARKER
        \o <<"\n">> \o PYTHON_FENCE \o <<"\n", "print(1)", "\n">> \o FENCE

ScenarioACrLf ==
    DESCRIPTION_MARKER \o <<"\r", "\n", "fix applied", "\r", "\n">>
        \o CODE_MARKER \o <<"\r", "\n">> \o PYTHON_FENCE
        \o <<"\r", "\n", "print(1)", "\r", "\n">> \o FENCE \o <<"\r", "\n">>

ScenarioB == <<"hello world">>

TranspileResponses ==
    { WARNING_MARKER \o <<"\n", "no goroutines", "\n">> \o CODE_MARKER
          \o <<"\n">> \o PYTHON_FENCE \o <<"\n", "print(1)", "\n">> \o FENCE,
      WARNING_MARKER \o <<"\n", "no goroutines">> }

\* An audit report with any of its three later delimiters left out.
AuditReport(score, grade, dg, an, vd) ==
    SECURITY_SCORE_MARKER \o <<"\n", score, "\n">>
        \o (IF dg THEN DEBT_GRADE_MARKER \o <<"\n">> ELSE <<>>) \o <<grade, "\n">>
        \o (IF an THEN ANALYSIS_MARKER \o <<"\n">> ELSE <<>>) \o <<"two issues", "\n">>
        \o (IF vd THEN VERDICT_MARKER \o <<"\n">> ELSE <<>>) \o <<"needs work">>

AuditResponses ==
    { AuditReport(score, grade, dg, an, vd) :
          score \in {"85", "N/A"}, grade \in {"B", "B+"},
          dg \in BOOLEAN, an \in BOOLEAN, vd \in BOOLEAN }

SimulationResponses ==
    { SIMULATION_MARKER \o <<"\n">> \o JSON_FENCE \o <<"\n", doc, "\n">> \o FENCE :
          doc \in {"{simulation trace}", TRUNCATED_DOCUMENT} }
    \cup { <<"Here is the trace:", "\n">> \o SIMULATION_MARKER
              \o <<"\n", "{simulation trace}", "\n">> }

TreeResponses ==
    { TREE_DATA_MARKER \o <<"\n", "{tree}">>,
      TREE_DATA_MARKER \o <<"\n">> \o JSON_FENCE \o <<"\n", "{tree}", "\n">>
          \o FENCE }

\* Every marker with an empty body, in the order of the chain and reversed.
AllMarkers ==
    DESCRIPTION_MARKER \o WARNING_MARKER \o SECURITY_SCORE_MARKER
        \o DEBT_GRADE_MARKER \o ANALYSIS_MARKER \o VERDICT_MARKER
        \o SIMULATION_MARKER \o TREE_DATA_MARKER \o CODE_MARKER

AllMarkersReversed ==
    CODE_MARKER \o TREE_DATA_MARKER \o SIMULATION_MARKER \o VERDICT_MARKER
        \o ANALYSIS_MARKER \o DEBT_GRADE_MARKER \o SECURITY_SCORE_MARKER
        \o WARNING_MARKER \o DESCRIPTION_MARKER

BareCodeResponse ==
    <<"Here is the code:", "\n">> \o CODE_MARKER \o <<"\n">> \o PYTHON_FENCE
        \o <<"\n", "print(1)", "\n">> \o FENCE \o <<"\n">>

PlainTextResponses ==
    { PYTHON_FENCE \o <<"\n", "import ", "os", "\n">> \o FENCE,
      PYTHON_FENCE \o <<"\n", "print(1)", "\n">> \o FENCE,
      <<" ", "def ", "f(): pass", "\n">> }

\* A transpile response whose code is in a fenced block tagged lang.
LanguageTags == {"python", "javascript"}

FencedCodeResponse(lang) ==
    WARNING_MARKER \o <<"\n">> \o CODE_MARKER \o <<"\n">> \o FENCE
        \o <<lang, "\n", "console.log(1)", "\n">> \o FENCE

FencedCodeResponses == {FencedCodeResponse(lang) : lang \in LanguageTags}

ParserInputs ==
    FuzzInputs(MaxChunks) \cup {BareCodeResponse} \cup PlainTextResponses
        \cup FencedCodeResponses
        \cup {ScenarioA, ScenarioACrLf, ScenarioB, AllMarkers, AllMarkersReversed}
        \cup TranspileResponses \cup AuditResponses \cup SimulationResponses
        \cup TreeResponses

ParseInit ==
    /\ ControllerInit
    /\ api_key
    /\ model_name = GROQ_MODEL
    /\ parse_pc = "ready"
    /\ parse_in \in ParserInputs
    /\ parse_out = NotParsed
    /\ TreeIdle
    /\ FenceIdle
    /\ ValidatorIdle
    /\ PairIdle
    /\ AppIdle

\* One call parse_custom_response(parse_in), lines 60-127.
ParseCustomResponse ==
    /\ parse_pc = "ready"
    /\ LET result == parse_custom_response(parse_in)
       IN  /\ parse_out' = result
           /\ parse_pc' = IF result.raised THEN "raised" ELSE "returned"
    /\ UNCHANGED <<api_key, ctl_vars, client_vars, hist_vars, parse_in, tree_vars,
                   fence_vars, val_vars, pair_vars, app_vars>>

ParseNext == ParseCustomResponse

ParseSpec == ParseInit /\ [][ParseNext]_vars

\* The call has ended; text is what the branches of the chain test.
Parsed == parse_pc \in {"returned", "raised"}

ParsedText == Normalise(parse_in)

\* ------------------------------------------------------------ generate_tree_data
\* The decoded trees generate_tree_data is applied to: every tree of up to
\* MaxNodes nodes whose nodes carry a name, a name and an empty or non-empty
\* signature, or a signature alone; a leaf has an empty list of children or no
\* children key.
MaxNodes == 3

TreeLabels ==
    { [name |-> <<"f">>],
      [name |-> <<"f">>, sig |-> <<>>],
      [name |-> <<"f">>, sig |-> <<"(x)">>],
      [sig |-> <<"(x)">>] }

RECURSIVE TreesOfSize(_)
RECURSIVE ForestsOfSize(_)
ForestsOfSize(n) ==
    IF n = 0 THEN {<<>>}
    ELSE UNION { {<<t>> \o f : t \in TreesOfSize(k), f \in ForestsOfSize(n - k)} :
                     k \in 1..n }

TreesOfSize(n) ==
    {SetItem(l, "children", f) : l \in TreeLabels, f \in ForestsOfSize(n - 1)}
        \cup (IF n = 1 THEN TreeLabels ELSE {})

TreeDocs == UNION {TreesOfSize(n) : n \in 1..MaxNodes}

SampleCode == <<"def ", "f(x): pass">>

SampleTree ==
    [name |-> <<"f">>, sig |-> <<"(x)">>,
     children |-> <<[name |-> <<"g">>, sig |-> <<"()">>, children |-> <<>>]>>]

\* The forms a response can take around its document, and responses without
\* a document that decodes.
TreeResponseTexts ==
    { TREE_DATA_MARKER \o <<"\n", TREE_DOCUMENT>>,
      <<"Here is the tree:", "\n">> \o TREE_DATA_MARKER \o <<"\n">> \o JSON_FENCE
          \o <<"\n", TREE_DOCUMENT, "\n">> \o FENCE,
      JSON_FENCE \o <<"\n", TREE_DOCUMENT, "\n">> \o FENCE,
      <<TREE_DOCUMENT>>,
      TREE_DATA_MARKER \o <<"\n", TRUNCATED_DOCUMENT>>,
      <<"{simulation trace}">>,
      MissingKeyError }

TreeInputs ==
    { [python_code |-> SampleCode,
       response |-> TREE_DATA_MARKER \o <<"\n", TREE_DOCUMENT>>,
       doc |-> Object(t)] : t \in TreeDocs }
    \cup { [python_code |-> code, response |-> r, doc |-> d] :
               code \in {SampleCode, <<>>, <<" ", "\n">>},
               r \in TreeResponseTexts,
               d \in {Object(SampleTree), Array(<<>>)} }

TreeInit ==
    /\ ControllerInit
    /\ api_key
    /\ model_name = GROQ_MODEL
    /\ ParseIdle
    /\ FenceIdle
    /\ ValidatorIdle
    /\ PairIdle
    /\ AppIdle
    /\ tree_pc = "ready"
    /\ tree_in \in TreeInputs
    /\ tree_out = <<>>

\* Line 73: st.error(f"Tree Data Error: {e}")
TreeDataError == <<"Tree Data Error">>

\* One call generate_tree_data(python_code), lines 41-75; the text that
\* call_groq_api returns at line 48 is tree_in.response.
GenerateTreeData ==
    /\ tree_pc = "ready"
    /\ IF Strip(tree_in.python_code) = <<>>
       THEN /\ tree_out' = EmptyCodeTree
            /\ UNCHANGED st_errors
       ELSE LET result == TreeFromResponse(tree_in.response, tree_in.doc)
            IN  /\ tree_out' = result.tree
                /\ st_errors' = IF result.failed THEN st_errors \o TreeDataError
                                ELSE st_errors
    /\ tree_pc' = "returned"
    /\ UNCHANGED <<api_key, pc, attempt, current_prompt, user_code, model_name,
                   last_response, response, generated_code, error_msg, returned,
                   toasts, client_vars, hist_vars, parse_vars, tree_in,
                   fence_vars, val_vars, pair_vars, app_vars>>

TreeNext == GenerateTreeData

TreeSpec == TreeInit /\ [][TreeNext]_vars

\* ------------------------------------------------------------ fence stripping
\* The texts the fence-stripping step is applied to: every text of up to
\* MaxFenceLen symbols over backticks, the language tag, a newline and code.
MaxFenceLen == 6

FenceAlphabet == {BACKTICK, "python", "\n", "x = 1"}

FenceTexts == UNION {[1..n -> FenceAlphabet] : n \in 0..MaxFenceLen}

FenceInit ==
    /\ ControllerInit
    /\ api_key
    /\ model_name = GROQ_MODEL
    /\ ParseIdle
    /\ TreeIdle
    /\ ValidatorIdle
    /\ PairIdle
    /\ AppIdle
    /\ fence_pc = "ready"
    /\ fence_in \in FenceTexts
    /\ fence_out = <<>>

\* The step of app.py line 81 (and 94, 122, 125) and agent_controller.py
\* line 26, applied to the text and then to its own result.
StripFencesStep ==
    /\ fence_pc = "ready"
    /\ Len(fence_out) < 2
    /\ fence_out' = Append(fence_out,
                           StripFences(IF fence_out = <<>> THEN fence_in
                                       ELSE fence_out[Len(fence_out)]))
    /\ UNCHANGED <<api_key, ctl_vars, client_vars, hist_vars, parse_vars,
                   tree_vars, fence_pc, fence_in, val_vars, pair_vars, app_vars>>

FenceNext == StripFencesStep

FenceSpec == FenceInit /\ [][FenceNext]_vars

\* ------------------------------------------------------------ validate_python_code
\* The candidate texts validate_python_code is applied to: up to MaxLines
\* lines, each one blank, a statement, a statement that does not parse, an
\* indented statement, a null byte, or an expression too deep to build.
\* A bracket left open is on the last line: the lines after an open bracket
\* would continue it, which the line grammar of AstParse does not describe.
MaxLines == 3

CodeLines ==
    { <<>>, <<"x = 1">>, <<"x = 1", " ">>, <<" ", "x = 1">>, <<"y = (">>,
      <<"def f(:">>, <<NULL_BYTE>>, <<DEEP_EXPRESSION>> }

RECURSIVE CodesOfLines(_)
CodesOfLines(n) ==
    IF n = 1 THEN CodeLines
    ELSE {c \o <<"\n">> \o l :
            c \in {d \in CodesOfLines(n - 1) : ~Contains(d, <<"y = (">>)},
            l \in CodeLines}

ValidatorCodes == UNION {CodesOfLines(n) : n \in 1..MaxLines}

ValidatorInit ==
    /\ ControllerInit
    /\ api_key
    /\ model_name = GROQ_MODEL
    /\ ParseIdle
    /\ TreeIdle
    /\ FenceIdle
    /\ PairIdle
    /\ AppIdle
    /\ val_pc = "ready"
    /\ val_in \in ValidatorCodes
    /\ val_out = None

\* One call validate_python_code(val_in), lines 14-34.
ValidatePythonCode ==
    /\ val_pc = "ready"
    /\ LET outcome == ValidateOutcome(val_in)
       IN  /\ val_out' = outcome.value
           /\ val_pc' = IF outcome.raised THEN "raised" ELSE "returned"
    /\ UNCHANGED <<api_key, ctl_vars, client_vars, hist_vars, parse_vars,
                   tree_vars, fence_vars, val_in, pair_vars, app_vars>>

ValidatorNext == ValidatePythonCode

ValidatorSpec == ValidatorInit /\ [][ValidatorNext]_vars

\* ------------------------------------------------------------ two invocations
\* Two invocations of autonomous_fix_loop run interleaved (two sessions of the
\* application). Every variable of the function is a local of the call
\* (lines 28, 40-56) and call_groq_api builds a new client for each call
\* (llm_handler.py line 45), so each invocation has a frame of its own.
Invocations == 1..2

\* Locals kept in one place for all invocations, as module globals would be.
FrameShared(i) == 1

\* The frame that holds the locals of invocation i.
Frame(i) == i

PairPrompts == <<<<"REFACTOR_PROMPT">>, <<"OPTIMIZE_PROMPT">>>>

PairCodes == << <<"def g():", "\n", " ", "return 1">>, <<"x = 1">> >>

\* What call_groq_api returns to either invocation: a response whose code is
\* valid and two whose code is not, with different diagnostics.
PairTexts ==
    { <<"x = 1">>,
      <<"---CODE---", "\n", "def f(:">>,
      PYTHON_FENCE \o <<"\n", "x = 1", "\n", "y = (", "\n">> \o FENCE }

\* Lines 40-41 and the loop head.
NewFrame(i) ==
    [pc |-> "Generating", attempt |-> 1, current_prompt |-> PairPrompts[i],
     user_code |-> PairCodes[i], last_response |-> <<>>, response |-> <<>>,
     generated_code |-> <<>>, error_msg |-> None, returned |-> None,
     notices |-> <<>>]

PairInit ==
    /\ ControllerInit
    /\ api_key
    /\ model_name = GROQ_MODEL
    /\ ParseIdle
    /\ TreeIdle
    /\ FenceIdle
    /\ ValidatorIdle
    /\ AppIdle
    /\ pair_frames = [i \in Invocations |-> NewFrame(i)]
    /\ pair_calls = [i \in Invocations |-> <<>>]

PairUnchanged ==
    UNCHANGED <<api_key, ctl_vars, client_vars, hist_vars, parse_vars,
                tree_vars, fence_vars, val_vars, app_vars>>

\* Lines 45-49: toast on a retry, call call_groq_api, keep what it returns.
PairGenerate(i) ==
    LET f == pair_frames[Frame(i)]
    IN  /\ f.pc = "Generating"
        /\ \E r \in PairTexts :
            /\ pair_frames' =
                 [pair_frames EXCEPT ![Frame(i)] =
                    [f EXCEPT !.response = r,
                              !.last_response = r,
                              !.notices = IF f.attempt > 1
                                          THEN Append(@, "self-correcting") ELSE @,
                              !.pc = "Extracting"]]
            /\ pair_calls' =
                 [pair_calls EXCEPT ![i] =
                    Append(@, [prompt |-> f.current_prompt,
                               user_code |-> f.user_code,
                               response |-> r])]
        /\ PairUnchanged

\* Lines 53-56: extract the code, validate it.
PairValidate(i) ==
    LET f == pair_frames[Frame(i)]
        code == ExtractedCode[f.response]
    IN  /\ f.pc = "Extracting"
        /\ pair_frames' =
             [pair_frames EXCEPT ![Frame(i)] =
                [f EXCEPT !.generated_code = code,
                          !.error_msg = Diagnostic[code],
                          !.pc = "Validating"]]
        /\ UNCHANGED pair_calls
        /\ PairUnchanged

\* Lines 58-62: if not error_msg: return response
PairAccept(i) ==
    LET f == pair_frames[Frame(i)]
    IN  /\ f.pc = "Validating"
        /\ Falsy(f.error_msg)
        /\ pair_frames' =
             [pair_frames EXCEPT ![Frame(i)] =
                [f EXCEPT !.notices = IF f.attempt > 1
                                      THEN Append(@, "successful") ELSE @,
                          !.returned = Str(f.response),
                          !.pc = "Accepted"]]
        /\ UNCHANGED pair_calls
        /\ PairUnchanged

\* Lines 64-76 and the loop head: rebuild the prompt, go round again.
PairRetry(i) ==
    LET f == pair_frames[Frame(i)]
    IN  /\ f.pc = "Validating"
        /\ ~Falsy(f.error_msg)
        /\ LoopContinues(f.attempt)
        /\ pair_frames' =
             [pair_frames EXCEPT ![Frame(i)] =
                [f EXCEPT !.current_prompt =
                              CorrectionPrompts[<<f.generated_code, f.error_msg.text>>],
                          !.user_code = <<>>,
                          !.attempt = NextAttempt(f.attempt),
                          !.pc = "Generating"]]
        /\ UNCHANGED pair_calls
        /\ PairUnchanged

\* Lines 64-79: the last iteration failed; st.error, return last_response.
PairExhaust(i) ==
    LET f == pair_frames[Frame(i)]
    IN  /\ f.pc = "Validating"
        /\ ~Falsy(f.error_msg)
        /\ ~LoopContinues(f.attempt)
        /\ pair_frames' =
             [pair_frames EXCEPT ![Frame(i)] =
                [f EXCEPT !.current_prompt =
                              CorrectionPrompts[<<f.generated_code, f.error_msg.text>>],
                          !.user_code = <<>>,
                          !.notices = @ \o ExhaustionNotice,
                          !.returned = Str(f.last_response),
                          !.pc = "Exhausted"]]
        /\ UNCHANGED pair_calls
        /\ PairUnchanged

PairNext ==
    \E i \in Invocations :
        \/ PairGenerate(i)
        \/ PairValidate(i)
        \/ PairAccept(i)
        \/ PairRetry(i)
        \/ PairExhaust(i)

PairSpec == PairInit /\ [][PairNext]_vars

\* ------------------------------------------------------------ app.py: the buttons
\* The main script of the application, run once for each press of a button.
\* How many presses one session is followed for.
MaxClicks == 3

\* The six buttons that start with validate_python_code, by their key.
AppActions == {"audit", "simulate", "refactor", "optimize", "debug", "transpile"}

\* The st.session_state key each of them stores its result under.
OutputKey ==
    [a \in AppActions |->
        IF a = "simulate" THEN "simulator_output"
        ELSE IF a = "audit" THEN "audit_output"
        ELSE IF a = "refactor" THEN "refactor_output"
        ELSE IF a = "optimize" THEN "optimize_output"
        ELSE IF a = "debug" THEN "debug_output"
        ELSE "transpile_output"]

\* Lines 144-150: the stored outputs.
SessionKeys == {OutputKey[a] : a \in AppActions} \cup {"fix_output"}

Unset == [none |-> TRUE, data |-> <<>>]

Output(d) == [none |-> FALSE, data |-> d]

\* utils/example_code.py: the text the editor starts with; it parses.
EXAMPLE_CODE == <<"x = 1">>

\* What the user can put in the editor.
AppCodes == {EXAMPLE_CODE, <<"def f(:">>, <<" ", "x = 1">>, <<"print(1)">>}

\* What call_groq_api can return to the application.
AppResponses ==
    { ScenarioA,
      AuditReport("85", "B", TRUE, TRUE, TRUE),
      AuditReport("N/A", "B+", TRUE, TRUE, TRUE),
      MissingKeyError }

\* validate_python_code and parse_custom_response, evaluated once for each
\* text that can reach them.
AppDiagnostic == [c \in AppCodes |-> validate_python_code(c)]

AppParsed == [r \in AppResponses |-> parse_custom_response(r).data]

\* get_advanced_metrics (lines 38-58): three numbers computed by radon, kept
\* here as the name of the metric and the code it was computed from.
get_advanced_metrics(code) ==
    [complexity |-> <<"complexity of">> \o code,
     maintainability |-> <<"maintainability of">> \o code,
     halstead_volume |-> <<"halstead volume of">> \o code]

\* {**d1, **d2}
Merge(d1, d2) ==
    [k \in DOMAIN d1 \cup DOMAIN d2 |-> IF k \in DOMAIN d2 THEN d2[k] ELSE d1[k]]

\* int(text) succeeds.
IntParses(text) == Len(text) = 1 /\ text[1] \in {ToString(i) : i \in 0..100}

\* Line 205: int(data.get('security_score', 100)) raises for a stored audit
\* whose score is not a number; the run of the script ends there, before the
\* buttons below it are looked at.
AuditRenderRaises ==
    /\ ~app_out["audit_output"].none
    /\ ~IntParses(app_out["audit_output"].data.security_score)

\* A gate that lets every text through.
ValidationGateOpen(error) == TRUE

\* if not (validation_error := validate_python_code(...))
ValidationGate(error) == Falsy(error)

\* Lines 179-180, 247, 281, 311, 346, 377: what the press of button a
\* stores, given the response.
Stored(a, r) ==
    IF a = "audit"
    THEN [app_out EXCEPT
            !["audit_output"] = Output(Merge(get_advanced_metrics(app_code), AppParsed[r])),
            !["fix_output"] = Unset]
    ELSE [app_out EXCEPT ![OutputKey[a]] = Output(AppParsed[r])]

AppInit ==
    /\ ControllerInit
    /\ api_key
    /\ model_name = GROQ_MODEL
    /\ ParseIdle
    /\ TreeIdle
    /\ FenceIdle
    /\ ValidatorIdle
    /\ PairIdle
    /\ app_code = EXAMPLE_CODE
    /\ app_out = [k \in SessionKeys |-> Unset]
    /\ app_calls = 0
    /\ app_errors = <<>>
    /\ app_clicks = 0
    /\ app_last = NoClick

AppUnchanged ==
    UNCHANGED <<api_key, ctl_vars, client_vars, hist_vars, parse_vars,
                tree_vars, fence_vars, val_vars, pair_vars>>

\* Lines 160-164: the user uploads a file or edits the text.
EditCode ==
    /\ \E c \in AppCodes \ {app_code} : app_code' = c
    /\ UNCHANGED <<app_out, app_calls, app_errors, app_clicks, app_last>>
    /\ AppUnchanged

\* Lines 173-182, 239-249, 277-283, 307-313, 339-348, 372-379: the user
\* presses one of the six buttons.
PressButton(a) ==
    /\ app_clicks < MaxClicks
    /\ app_clicks' = app_clicks + 1
    /\ IF a # "audit" /\ AuditRenderRaises
       THEN /\ app_last' = [action |-> a, reached |-> FALSE, error |-> None]
            /\ UNCHANGED <<app_out, app_calls, app_errors>>
       ELSE LET validation_error == AppDiagnostic[app_code]
            IN  /\ app_last' = [action |-> a, reached |-> TRUE,
                                error |-> validation_error]
                /\ IF ValidationGate(validation_error)
                   THEN /\ \E r \in AppResponses : app_out' = Stored(a, r)
                        /\ app_calls' = app_calls + 1
                        /\ UNCHANGED app_errors
                   ELSE /\ app_errors' =
                              Append(app_errors,
                                     <<"**Validation Error:** ">> \o validation_error.text)
                        /\ UNCHANGED <<app_out, app_calls>>
    /\ UNCHANGED app_code
    /\ AppUnchanged

\* Lines 210-224: the user presses "Apply Selected Changes", shown below a
\* stored audit; the code is sent as it is.
ApplyAuditFixes ==
    /\ app_clicks < MaxClicks
    /\ ~app_out["audit_output"].none
    /\ ~AuditRenderRaises
    /\ app_clicks' = app_clicks + 1
    /\ app_last' = [action |-> "apply_audit_fixes", reached |-> TRUE, error |-> None]
    /\ \E selected_fixes \in BOOLEAN :
         IF selected_fixes
         THEN /\ \E r \in AppResponses :
                   app_out' = [app_out EXCEPT !["fix_output"] = Output(AppParsed[r])]
              /\ app_calls' = app_calls + 1
         ELSE UNCHANGED <<app_out, app_calls>>
    /\ UNCHANGED <<app_code, app_errors>>
    /\ AppUnchanged

AppNext ==
    \/ EditCode
    \/ \E a \in AppActions : PressButton(a)
    \/ ApplyAuditFixes

AppSpec == AppInit /\ [][AppNext]_vars

Returned == pc \in {"Accepted", "Exhausted"}

TypeOK ==
    /\ attempt \in 1..MAX_ATTEMPTS
    /\ c_attempt \in 0..(MAX_RETRIES - 1)
    /\ pc \in {"Generating", "Calling", "Validating", "Accepted", "Exhausted"}
    /\ cpc \in {"idle", "entry", "request", "returned"}

\* ------------------------------------------------------------ properties
Invalid(k) == ~Falsy(attempts[k].error)

AllInvalid == \A k \in 1..Len(attempts) : Invalid(k)

\* The instruction and the source text passed to generation call i.
UsedPrompt(i) ==
    IF i <= Len(attempts) THEN attempts[i].prompt ELSE c_args.system_prompt

UsedUserCode(i) ==
    IF i <= Len(attempts) THEN attempts[i].user_code ELSE c_args.user_code

\* The events of the running client call that are network requests.
RequestsUpTo(i) == Cardinality({j \in 1..i : c_log[j].ev = "request"})

ClientRequests == RequestsUpTo(Len(c_log))

ClientSleeps == Cardinality({j \in 1..Len(c_log) : c_log[j].ev = "sleep"})

\* "ERROR:" in text
IsErrorFlagged(text) == Contains(text, <<"ERROR:">>)

\* C1: one invocation of autonomous_fix_loop makes at most MAX_ATTEMPTS
\* generation calls, whatever the service answers and the validator says, and
\* then returns.
C1_BoundedAndTerminates == [](gen_calls <= MAX_ATTEMPTS) /\ <>Returned

C1_Witness == Returned /\ gen_calls = MAX_ATTEMPTS

\* C2: when the validator finds attempt k valid, attempt k is the last
\* generation call, the controller's next step is to return, and what it
\* returns is the raw response of attempt k.
C2_ValidReturnsAtOnce ==
    \A k \in 1..Len(attempts) :
        Falsy(attempts[k].error) =>
            /\ k = Len(attempts)
            /\ gen_calls = k
            /\ pc \in {"Validating", "Accepted"}
            /\ pc = "Accepted" => returned = Str(attempts[k].response)

C2_Witness ==
    /\ pc = "Accepted"
    /\ Len(attempts) = 2
    /\ attempts[2].code # attempts[2].response

\* C3: when every attempt is invalid the controller ends Exhausted after
\* exactly MAX_ATTEMPTS generation calls and returns the last raw response.
C3_AllInvalidExhausts ==
    /\ (AllInvalid /\ Len(attempts) = MAX_ATTEMPTS) =>
            /\ gen_calls = MAX_ATTEMPTS
            /\ pc \in {"Validating", "Exhausted"}
    /\ (AllInvalid /\ Returned) =>
            /\ pc = "Exhausted"
            /\ Len(attempts) = MAX_ATTEMPTS
            /\ gen_calls = MAX_ATTEMPTS
            /\ returned = Str(attempts[MAX_ATTEMPTS].response)

C3_Witness ==
    /\ pc = "Exhausted"
    /\ AllInvalid
    /\ attempts[1].response # attempts[MAX_ATTEMPTS].response

\* C4 as claimed: on exhaustion the value handed back to the caller carries a
\* signal, so it differs from what the success exit hands back for the same
\* attempt (the bare raw response).
C4_ReturnCarriesSignal == pc = "Exhausted" => returned # Str(response)

\* C4 as amended: on exhaustion the controller returns the last raw response
\* as it is, a plain string like an accepted result, and the exhausted state
\* is signalled only by the st.error notice, which is shown on exhaustion and
\* never otherwise.
C4_SignalIsTheNotice ==
    /\ pc = "Exhausted" =>
            /\ returned = Str(attempts[Len(attempts)].response)
            /\ Len(st_errors) = 1
    /\ pc # "Exhausted" => st_errors = <<>>

C4_Witness == pc = "Exhausted" /\ returned # None

\* C5: after an invalid attempt n < MAX_ATTEMPTS, generation call n+1 gets the
\* correction template with attempt n's extracted code and attempt n's
\* diagnostic substituted in, and an empty source text.
C5_PromptFromPreviousAttempt ==
    \A n \in 1..(gen_calls - 1) :
        /\ Invalid(n)
        /\ UsedPrompt(n + 1) =
               Replace(Replace(SELF_CORRECTION_PROMPT,
                               <<"{previous_code}">>, attempts[n].code),
                       <<"{error_message}">>, attempts[n].error.text)
        /\ UsedPrompt(n + 1) \notin InitialPrompts
        /\ UsedUserCode(n + 1) = <<>>

C5_Witness ==
    /\ pc = "Calling"
    /\ gen_calls = MAX_ATTEMPTS
    /\ attempts[1].code # attempts[2].code
    /\ attempts[1].error # attempts[2].error

\* C6 as claimed: once call_groq_api has returned the missing-key error, the
\* invocation makes no further generation call.
C6_MissingKeyNotRetried ==
    \A k \in 1..Len(attempts) :
        attempts[k].response = MissingKeyError => gen_calls = k

\* C7: one call_groq_api issues at most MAX_RETRIES requests; after failed
\* request i < MAX_RETRIES it sleeps RETRY_DELAY_SECONDS * i before the next
\* request; it does not sleep after the last failed request.
C7_LinearBackoff ==
    /\ ClientRequests <= MAX_RETRIES
    /\ ClientSleeps =
           IF Len(c_errors) < MAX_RETRIES THEN Len(c_errors) ELSE MAX_RETRIES - 1
    /\ \A i \in 1..Len(c_log) :
           /\ c_log[i].ev = "sleep" =>
                  /\ i > 1
                  /\ c_log[i - 1].ev = "request"
                  /\ RequestsUpTo(i) < MAX_RETRIES
                  /\ c_log[i].seconds = RETRY_DELAY_SECONDS * RequestsUpTo(i)
           /\ (c_log[i].ev = "request" /\ i > 1) => c_log[i - 1].ev = "sleep"
    /\ cpc = "returned" => (c_log = <<>> \/ c_log[Len(c_log)].ev = "request")

C7_Witness ==
    /\ cpc = "returned"
    /\ Len(c_errors) = MAX_RETRIES
    /\ c_log = <<Request, Sleep(2), Request, Sleep(4), Request>>

\* C8: call_groq_api never raises: every call that ends has returned a text,
\* and after MAX_RETRIES failed requests that text is error-flagged and ends
\* with the description of the last error.
C8_NeverRaises ==
    /\ cpc \in {"idle", "entry", "request", "returned"}
    /\ cpc = "returned" => ~c_ret.none
    /\ (cpc = "returned" /\ Len(c_errors) = MAX_RETRIES) =>
            /\ IsErrorFlagged(c_ret.text)
            /\ c_ret.text[Len(c_ret.text)] = c_errors[MAX_RETRIES]

C8_Witness ==
    /\ cpc = "returned"
    /\ Len(c_errors) = MAX_RETRIES
    /\ c_errors[1] # c_errors[MAX_RETRIES]

\* C9: without a key call_groq_api returns the missing-key text at once: no
\* request, no sleep, no retry.
C9_MissingKeyReturnsAtOnce ==
    ~api_key =>
        /\ cpc \in {"idle", "entry", "returned"}
        /\ c_log = <<>>
        /\ c_errors = <<>>
        /\ c_attempt = 0
        /\ cpc = "returned" => c_ret = Str(MissingKeyError)

C9_Witness == ~api_key /\ cpc = "returned"

\* C10 as claimed: a call_groq_api call with a model name outside
\* SUPPORTED_MODELS issues no request.
C10_UnsupportedModelFailsFast ==
    (cpc \in {"entry", "request", "returned"}
        /\ c_args.model_name \notin SUPPORTED_MODELS) => c_log = <<>>

\* C11: with the key present, a request that fails with APIError is followed
\* by another request until MAX_RETRIES requests have failed; call_groq_api
\* returns an error-flagged text only after MAX_RETRIES failed requests, never
\* after fewer.
C11_ErrorOnlyAfterBudget ==
    api_key =>
        /\ (cpc = "returned" /\ IsErrorFlagged(c_ret.text)) =>
                /\ Len(c_errors) = MAX_RETRIES
                /\ ClientRequests = MAX_RETRIES
        /\ (cpc = "request" /\ c_errors # <<>>) =>
                /\ Len(c_errors) < MAX_RETRIES
                /\ ClientRequests = Len(c_errors)
        /\ (cpc = "returned" /\ Len(c_errors) \in 1..(MAX_RETRIES - 1)) =>
                /\ ClientRequests = Len(c_errors) + 1
                /\ ~IsErrorFlagged(c_ret.text)

C11_Witness ==
    /\ api_key
    /\ cpc = "returned"
    /\ IsErrorFlagged(c_ret.text)
    /\ Len(c_errors) = MAX_RETRIES

\* The keys spec section 3 documents for the parsed result, under the names
\* the code gives them (securityScore is security_score, and so on).
DocumentedKeys ==
    {"description", "code", "warning", "security_score", "debt_grade",
     "analysis", "verdict", "simulation", "tree_data"}

\* C12 as claimed: the dict parse_custom_response returns has every documented
\* key, the tree data among them.
C12_AllDocumentedKeys ==
    parse_pc = "returned" => DocumentedKeys \subseteq DOMAIN parse_out.data

\* C12 amended: the dict parse_custom_response returns has exactly the keys
\* description, code, warning, security_score, debt_grade, analysis, verdict
\* and simulation on every input; it never has a tree-data key.
C12_EightKeys ==
    parse_pc = "returned" =>
        DOMAIN parse_out.data =
            {"description", "code", "warning", "security_score", "debt_grade",
             "analysis", "verdict", "simulation"}

C12_Witness ==
    /\ parse_pc = "returned"
    /\ Contains(parse_in, TREE_DATA_MARKER)
    /\ "simulation" \in DOMAIN parse_out.data

\* Every field of the dict has the value it was created with.
AllDefault(d) ==
    /\ d.description = <<>>
    /\ d.code = <<>>
    /\ d.warning = <<>>
    /\ d.security_score = <<"0">>
    /\ d.debt_grade = <<"F">>
    /\ d.analysis = <<>>
    /\ d.verdict = <<>>
    /\ ~d.simulation.decoded

\* No test of the chain holds on the text.
NoDetectorMatches(text) ==
    /\ \A m \in {DESCRIPTION_MARKER, WARNING_MARKER, SECURITY_SCORE_MARKER,
                 SIMULATION_MARKER, CODE_MARKER} : ~Contains(text, m)
    /\ ~Contains(text, <<"def ">>)
    /\ ~Contains(text, <<"import ">>)

\* C13: parse_custom_response raises on no input text (empty, without a
\* marker, with every marker and empty bodies, markers in any order): every
\* call returns a dict, and on a text no test of the chain recognises the dict
\* has its default values.
C13_ParseNeverRaises ==
    /\ parse_pc \in {"idle", "ready", "returned"}
    /\ parse_pc = "returned" => ~parse_out.raised
    /\ (parse_pc = "returned" /\ NoDetectorMatches(parse_in)) =>
            AllDefault(parse_out.data)

C13_Witness ==
    /\ parse_pc = "returned"
    /\ parse_in = SIMULATION_MARKER \o <<TRUNCATED_DOCUMENT>>
    /\ ~parse_out.raised

\* Every field of the dict outside keys has the value it was created with.
DefaultOutside(d, keys) ==
    /\ "description" \notin keys => d.description = <<>>
    /\ "code" \notin keys => d.code = <<>>
    /\ "warning" \notin keys => d.warning = <<>>
    /\ "security_score" \notin keys => d.security_score = <<"0">>
    /\ "debt_grade" \notin keys => d.debt_grade = <<"F">>
    /\ "analysis" \notin keys => d.analysis = <<>>
    /\ "verdict" \notin keys => d.verdict = <<>>
    /\ "simulation" \notin keys => ~d.simulation.decoded

\* The description-marker occurs and a code-marker occurs after it.
DescriptionThenCode(text) ==
    /\ Contains(text, DESCRIPTION_MARKER)
    /\ Contains(After(text, DESCRIPTION_MARKER), CODE_MARKER)

\* C14 as claimed: the description detector matches only when a code-marker
\* follows the description-marker; when it does not match, description is left
\* empty and the later detectors are tried, so a warning-marker followed by a
\* code-marker fills the warning.
C14_DescriptionNeedsCode ==
    (parse_pc = "returned" /\ ~DescriptionThenCode(ParsedText)) =>
        /\ parse_out.data.description = <<>>
        /\ (/\ Contains(ParsedText, WARNING_MARKER)
            /\ Contains(After(ParsedText, WARNING_MARKER), CODE_MARKER)) =>
               parse_out.data.warning =
                   Strip(Before(After(ParsedText, WARNING_MARKER), CODE_MARKER))

\* C14 amended: the chain has six detectors, tried in the order description,
\* warning, audit, simulation, bare code, code tokens, each selected by the
\* presence of its own marker alone; only the first one whose marker occurs
\* acts, and the fields of the others keep their defaults.  The description
\* detector is selected by the description-marker whether or not a code-marker
\* follows.  No detector looks for the tree marker.
C14_FirstMatchWins ==
    parse_pc = "returned" =>
        LET t == ParsedText
            d == parse_out.data
            has(m) == Contains(t, m)
        IN  CASE has(DESCRIPTION_MARKER) ->
                   /\ DefaultOutside(d, {"description", "code"})
                   /\ d.description =
                          Strip(Before(After(t, DESCRIPTION_MARKER), CODE_MARKER))
                   /\ ~DescriptionThenCode(t) => d.code = <<>>
              [] ~has(DESCRIPTION_MARKER) /\ has(WARNING_MARKER) ->
                   /\ DefaultOutside(d, {"warning", "code"})
                   /\ ~Contains(After(t, WARNING_MARKER), CODE_MARKER) =>
                          d.code = <<>>
              [] /\ ~has(DESCRIPTION_MARKER) /\ ~has(WARNING_MARKER)
                 /\ has(SECURITY_SCORE_MARKER) ->
                   /\ DefaultOutside(d, {"security_score", "debt_grade",
                                         "analysis", "verdict"})
                   /\ d.security_score =
                          Strip(Before(SplitSecond(t, SECURITY_SCORE_MARKER),
                                       DEBT_GRADE_MARKER))
              [] /\ ~has(DESCRIPTION_MARKER) /\ ~has(WARNING_MARKER)
                 /\ ~has(SECURITY_SCORE_MARKER) /\ has(SIMULATION_MARKER) ->
                   DefaultOutside(d, {"simulation"})
              [] /\ ~has(DESCRIPTION_MARKER) /\ ~has(WARNING_MARKER)
                 /\ ~has(SECURITY_SCORE_MARKER) /\ ~has(SIMULATION_MARKER)
                 /\ has(CODE_MARKER) ->
                   /\ DefaultOutside(d, {"code"})
                   /\ d.code = StripFences(Strip(After(t, CODE_MARKER)))
              [] OTHER ->
                   /\ DefaultOutside(d, {"code"})
                   /\ d.code # <<>> =>
                          Contains(t, <<"def ">>) \/ Contains(t, <<"import ">>)

C14_Witness ==
    /\ parse_pc = "returned"
    /\ Contains(ParsedText, DESCRIPTION_MARKER)
    /\ ~DescriptionThenCode(ParsedText)
    /\ Contains(ParsedText, <<"def ">>)
    /\ parse_out.data.description # <<>>
    /\ parse_out.data.code = <<>>

\* The text has no whitespace at either end.
Trimmed(text) ==
    text = <<>> \/ (Head(text) \notin Whitespace /\ text[Len(text)] \notin Whitespace)

\* C15: when the description-marker is followed by a code-marker, description
\* is the trimmed text between the two markers, code is the trimmed text after
\* the code-marker with its fences removed, and every other field keeps its
\* default; Scenario A parses to description "fix applied", code "print(1)".
C15_DescriptionAndCode ==
    (parse_pc = "returned" /\ DescriptionThenCode(ParsedText)) =>
        LET content == After(ParsedText, DESCRIPTION_MARKER)
            d == parse_out.data
        IN  /\ d.description = Strip(Before(content, CODE_MARKER))
            /\ d.code =
                   Strip(Replace(Replace(Strip(After(content, CODE_MARKER)),
                                         PYTHON_FENCE, <<>>), FENCE, <<>>))
            /\ Trimmed(d.description)
            /\ Trimmed(d.code)
            /\ ~Contains(d.code, FENCE)
            /\ DefaultOutside(d, {"description", "code"})
            /\ parse_in \in {ScenarioA, ScenarioACrLf} =>
                   d.description = <<"fix applied">> /\ d.code = <<"print(1)">>

C15_Witness ==
    /\ parse_pc = "returned"
    /\ parse_in = ScenarioA
    /\ parse_out.data.description = <<"fix applied">>
    /\ parse_out.data.code = <<"print(1)">>

\* C16 as claimed: when the warning detector is the one selected, warning is
\* the trimmed text after the warning-marker (up to the code-marker when one
\* follows), both when a code-marker follows and when none does.
C16_WarningPopulated ==
    (/\ parse_pc = "returned"
     /\ ~Contains(ParsedText, DESCRIPTION_MARKER)
     /\ Contains(ParsedText, WARNING_MARKER)) =>
        parse_out.data.warning =
            Strip(Before(After(ParsedText, WARNING_MARKER), CODE_MARKER))

\* The audit detector is the one the chain selects.
AuditSelected(text) ==
    /\ ~Contains(text, DESCRIPTION_MARKER)
    /\ ~Contains(text, WARNING_MARKER)
    /\ Contains(text, SECURITY_SCORE_MARKER)

\* Each later delimiter is found where the sequential split looks for it.
AuditDelimitersFound(text) ==
    LET seg1 == SplitSecond(text, SECURITY_SCORE_MARKER)
        seg2 == SplitSecond(seg1, DEBT_GRADE_MARKER)
        seg3 == SplitSecond(seg2, ANALYSIS_MARKER)
    IN  /\ Contains(seg1, DEBT_GRADE_MARKER)
        /\ Contains(seg2, ANALYSIS_MARKER)
        /\ Contains(seg3, VERDICT_MARKER)

\* C17: the audit detector splits at the debt-grade, analysis and verdict
\* delimiters in turn; when one of them is not found the call does not raise:
\* it returns with analysis set to the parse-failure note and no verdict.
\* When all are found the four audit fields hold the trimmed pieces.
C17_AuditFailureNote ==
    (Parsed /\ AuditSelected(ParsedText)) =>
        LET t == ParsedText
            d == parse_out.data
        IN  /\ parse_pc = "returned"
            /\ (\E m \in {DEBT_GRADE_MARKER, ANALYSIS_MARKER, VERDICT_MARKER} :
                    ~Contains(t, m)) => ~AuditDelimitersFound(t)
            /\ ~AuditDelimitersFound(t) =>
                   d.analysis = AUDIT_PARSE_ERROR /\ d.verdict = <<>>
            /\ AuditDelimitersFound(t) => d.analysis # AUDIT_PARSE_ERROR
            /\ \A grade \in {"B", "B+"} :
                   parse_in = AuditReport("85", grade, TRUE, TRUE, TRUE) =>
                       /\ d.security_score = <<"85">>
                       /\ d.debt_grade = <<grade>>
                       /\ d.analysis = <<"two issues">>
                       /\ d.verdict = <<"needs work">>

C17_Witness ==
    /\ parse_pc = "returned"
    /\ parse_in = AuditReport("85", "B", TRUE, FALSE, TRUE)
    /\ parse_out.data.analysis = AUDIT_PARSE_ERROR
    /\ parse_out.data.security_score = <<"85">>

\* The decimal texts of the integers 0..100, and the five grades.
ScoreTexts == {<<ToString(i)>> : i \in 0..100}

GradeTexts == {<<"A">>, <<"B">>, <<"C">>, <<"D">>, <<"F">>}

\* C18 as claimed: whatever the model wrote, security_score is an integer in
\* 0..100 and debt_grade is one of A, B, C, D, F.
C18_ScoreAndGradeInDomain ==
    parse_pc = "returned" =>
        /\ parse_out.data.security_score \in ScoreTexts
        /\ parse_out.data.debt_grade \in GradeTexts

\* The simulation detector is the one the chain selects.
SimulationSelected(text) ==
    /\ ~Contains(text, DESCRIPTION_MARKER)
    /\ ~Contains(text, WARNING_MARKER)
    /\ ~Contains(text, SECURITY_SCORE_MARKER)
    /\ Contains(text, SIMULATION_MARKER)

\* What is handed to the decoder: the text after the simulation-marker, up to
\* the next one, without fences and surrounding whitespace.
SimulationPayload(text) ==
    Strip(Replace(Replace(Strip(SplitSecond(text, SIMULATION_MARKER)),
                          JSON_FENCE, <<>>), FENCE, <<>>))

IsDocument(payload) == Len(payload) = 1 /\ payload[1] \in DOMAIN JsonValues

\* C19: when the simulation detector is selected and the text after the
\* simulation-marker does not decode, the call returns without raising,
\* simulation is None (never a partly filled structure) and every other field
\* has its default; a text that decodes gives the whole decoded document.
C19_UndecodableSimulation ==
    (Parsed /\ SimulationSelected(ParsedText)) =>
        LET payload == SimulationPayload(ParsedText)
            d == parse_out.data
        IN  /\ parse_pc = "returned"
            /\ DefaultOutside(d, {"simulation"})
            /\ ~IsDocument(payload) => ~d.simulation.decoded
            /\ IsDocument(payload) =>
                   /\ d.simulation.decoded
                   /\ d.simulation.value = JsonValues[payload[1]]

C19_Witness ==
    /\ parse_pc = "returned"
    /\ parse_in = SIMULATION_MARKER \o <<"\n">> \o JSON_FENCE
                      \o <<"\n", TRUNCATED_DOCUMENT, "\n">> \o FENCE
    /\ ~parse_out.data.simulation.decoded
    /\ AllDefault(parse_out.data)

\* The positions of the nodes of a tree: the child indices from the root.
RECURSIVE Paths(_)
Paths(node) ==
    {<<>>} \cup
        (IF "children" \in DOMAIN node
         THEN UNION { {<<i>> \o p : p \in Paths(node.children[i])} :
                          i \in 1..Len(node.children) }
         ELSE {})

RECURSIVE NodeAt(_, _)
NodeAt(node, path) ==
    IF path = <<>> THEN node
    ELSE NodeAt(node.children[Head(path)], Tail(path))

\* The text generate_tree_data hands to json.loads.
TreePayload(text) ==
    IF Contains(text, TREE_DATA_MARKER)
    THEN Strip(Replace(Replace(Strip(SplitSecond(text, TREE_DATA_MARKER)),
                               JSON_FENCE, <<>>), FENCE, <<>>))
    ELSE Strip(Replace(Replace(text, JSON_FENCE, <<>>), FENCE, <<>>))

\* The call got code, and its response carries a document that decodes to a
\* tree.
TreeDecoded ==
    /\ tree_pc = "returned"
    /\ Strip(tree_in.python_code) # <<>>
    /\ TreePayload(tree_in.response) = <<TREE_DOCUMENT>>
    /\ tree_in.doc.object

\* C20: generate_tree_data returns the decoded tree with the same shape, and at
\* every node of it, at any depth (a single root without children included):
\* a node with a non-empty sig has as name its decoded name, a newline and the
\* sig, appended once; a node with no sig or an empty one keeps its name (or
\* its lack of one); no other key of a node changes.
C20_EveryNodeLabelled ==
    TreeDecoded =>
        /\ Paths(tree_out) = Paths(tree_in.doc.value)
        /\ \A p \in Paths(tree_in.doc.value) :
             LET a == NodeAt(tree_in.doc.value, p)
                 b == NodeAt(tree_out, p)
             IN  /\ DOMAIN b \ {"name"} = DOMAIN a \ {"name"}
                 /\ Get(b, "sig") = Get(a, "sig")
                 /\ IF Get(a, "sig") # <<>>
                    THEN /\ "name" \in DOMAIN b
                         /\ Get(b, "name") = Get(a, "name") \o <<"\n">> \o a.sig
                    ELSE /\ "name" \in DOMAIN b <=> "name" \in DOMAIN a
                         /\ Get(b, "name") = Get(a, "name")

C20_Witness ==
    /\ TreeDecoded
    /\ \E p \in Paths(tree_in.doc.value) :
         /\ Len(p) = 2
         /\ NodeAt(tree_in.doc.value, p) = [name |-> <<"f">>, sig |-> <<"(x)">>]
         /\ NodeAt(tree_out, p).name = <<"f", "\n", "(x)">>
         /\ "sig" \notin DOMAIN NodeAt(tree_in.doc.value, <<p[1]>>)
         /\ NodeAt(tree_out, <<p[1]>>).name = <<"f">>

\* The call got code, and its response carries the tree marker followed by
\* text that does not decode to a JSON object.
TreeUndecodable ==
    /\ tree_pc = "returned"
    /\ Strip(tree_in.python_code) # <<>>
    /\ Contains(tree_in.response, TREE_DATA_MARKER)
    /\ \/ TreePayload(tree_in.response) \notin
              {<<TREE_DOCUMENT>>} \cup {<<d>> : d \in DOMAIN JsonValues}
       \/ TreePayload(tree_in.response) = <<TREE_DOCUMENT>> /\ ~tree_in.doc.object

\* C21 as claimed: when the text after the tree marker does not decode, the
\* tree result is null (None is the value without keys).
C21_TreeNullOnFailure == TreeUndecodable => DOMAIN tree_out = {}

\* C21 amended: when the text after the tree marker does not decode, the call
\* does not raise and returns the fixed placeholder tree named
\* "Error Parsing Data" with no children, never a part of a hierarchy, after an
\* error notice was shown.
C21_PlaceholderOnFailure ==
    /\ tree_pc \in {"idle", "ready", "returned"}
    /\ TreeUndecodable =>
           /\ tree_out = [name |-> <<"Error Parsing Data">>, children |-> <<>>]
           /\ st_errors = <<"Tree Data Error">>

C21_Witness ==
    /\ TreeUndecodable
    /\ tree_in.response = TREE_DATA_MARKER \o <<"\n", TRUNCATED_DOCUMENT>>
    /\ tree_out.name = <<"Error Parsing Data">>

\* The bare-code detector is the one the chain selects.
BareCodeSelected(text) ==
    /\ ~Contains(text, DESCRIPTION_MARKER)
    /\ ~Contains(text, WARNING_MARKER)
    /\ ~Contains(text, SECURITY_SCORE_MARKER)
    /\ ~Contains(text, SIMULATION_MARKER)
    /\ Contains(text, CODE_MARKER)

\* The text without its fences: no "```python", then no "```", then trimmed.
WithoutFences(text) ==
    Strip(Replace(Replace(text, PYTHON_FENCE, <<>>), FENCE, <<>>))

\* C22: when a code-marker is present and no description, warning, audit or
\* simulation marker is (a tree marker does not matter), code is everything
\* after the first code-marker, trimmed and without fences, and every other
\* field keeps its default.
C22_BareCode ==
    (Parsed /\ BareCodeSelected(ParsedText)) =>
        /\ parse_pc = "returned"
        /\ parse_out.data.code =
               WithoutFences(Strip(SubSeq(ParsedText,
                                          Find(ParsedText, CODE_MARKER) + 1,
                                          Len(ParsedText))))
        /\ DefaultOutside(parse_out.data, {"code"})
        /\ parse_in = BareCodeResponse => parse_out.data.code = <<"print(1)">>

C22_Witness ==
    /\ parse_pc = "returned"
    /\ parse_in = CODE_MARKER \o <<"def ", "f(): pass">> \o CODE_MARKER
    /\ parse_out.data.code = <<"def ", "f(): pass", "---CODE---">>

\* None of the markers the chain tests occurs in the text.
NoMarker(text) ==
    \A m \in {DESCRIPTION_MARKER, WARNING_MARKER, SECURITY_SCORE_MARKER,
              SIMULATION_MARKER, CODE_MARKER} : ~Contains(text, m)

\* "def " in text or "import " in text
HasCodeToken(text) == \E i \in 1..Len(text) : text[i] \in {"def ", "import "}

\* C23: on a text without a recognised marker, when the text contains "def "
\* or "import " the whole text, trimmed and without fences, becomes code and
\* nothing else is set; otherwise (Scenario B, "hello world") every field
\* keeps its default, code and description empty.
C23_TokensOrDefault ==
    (Parsed /\ NoMarker(ParsedText)) =>
        /\ parse_pc = "returned"
        /\ DefaultOutside(parse_out.data, {"code"})
        /\ parse_out.data.code =
               IF HasCodeToken(ParsedText) THEN WithoutFences(ParsedText) ELSE <<>>
        /\ parse_in = ScenarioB =>
               /\ parse_out.data.code = <<>>
               /\ parse_out.data.description = <<>>
               /\ AllDefault(parse_out.data)

C23_Witness ==
    /\ parse_pc = "returned"
    /\ parse_in = PYTHON_FENCE \o <<"\n", "import ", "os", "\n">> \o FENCE
    /\ parse_out.data.code = <<"import ", "os">>

\* C24: the fence-stripping step is idempotent: applied to its own result it
\* returns that result; the result holds no fence and is trimmed.
C24_FenceStripIdempotent ==
    /\ Len(fence_out) = 2 => fence_out[2] = fence_out[1]
    /\ Len(fence_out) >= 1 =>
           /\ ~Contains(fence_out[1], FENCE)
           /\ Trimmed(fence_out[1])

C24_Witness ==
    /\ Len(fence_out) = 2
    /\ fence_in = <<BACKTICK, BACKTICK, BACKTICK, "python", "\n", "x = 1">>
    /\ fence_out = <<<<"x = 1">>, <<"x = 1">>>>

\* C25 as claimed: for a code segment in a fenced block tagged with any
\* language name, code is the inner text: fence markers and tag removed,
\* nothing else.
C25_StripsExactlyFencing ==
    (parse_pc = "returned" /\ parse_in \in FencedCodeResponses) =>
        parse_out.data.code = <<"console.log(1)">>

\* The line ast.parse stops at: the first line of the text that does not parse.
FirstBadLine(code, n) ==
    LET ls == Lines(code)
    IN  /\ n \in 1..Len(ls)
        /\ ~Contains(code, <<NULL_BYTE>>)
        /\ ~LineParses(ls[n])
        /\ \A j \in 1..(n - 1) : LineParses(ls[j])

\* What a finished call of validate_python_code has returned: Valid (None),
\* or Invalid with a message that is not empty and that ends in the number
\* of the offending line whenever the parser names one.
ValidOrDiagnosed ==
    /\ val_pc # "raised"
    /\ val_pc = "returned" =>
        \/ val_out.none
        \/ /\ val_out.text # <<>>
           /\ \A i \in 1..Len(val_out.text) : val_out.text[i] # ""
           /\ \A n \in 1..Len(Lines(val_in)) :
                FirstBadLine(val_in, n) =>
                    /\ Len(val_out.text) = 4
                    /\ val_out.text[1] = "Syntax Error: "
                    /\ val_out.text[3] = " on line "
                    /\ val_out.text[4] = ToString(n)

\* C26: validate_python_code never raises to its caller and changes nothing
\* of the program's state: for every text it returns either Valid or Invalid
\* with a non-empty message, which carries the line number when the parser
\* supplies one.
C26_ValidatorTotal ==
    /\ []ValidOrDiagnosed
    /\ [][ValidatePythonCode =>
            UNCHANGED <<api_key, ctl_vars, client_vars, hist_vars, parse_vars,
                        tree_vars, fence_vars, pair_vars, app_vars>>]_vars

C26_Witness ==
    /\ val_pc = "returned"
    /\ val_in = <<"x = 1", "\n", "def f(:">>
    /\ val_out = Str(<<"Syntax Error: ", "invalid syntax", " on line ", "2">>)

C26_WitnessUnexpected ==
    /\ val_pc = "returned"
    /\ val_in = <<DEEP_EXPRESSION>>
    /\ val_out.text[1] = "An unexpected validation error occurred: "

\* C27: for every raw response, the controller's extraction
\* (parse_code_from_response) yields the same text as the code field that
\* parse_custom_response returns for that response.
C27_SameExtraction ==
    parse_pc = "returned" =>
        parse_out.data.code = parse_code_from_response(parse_in)

\* C28: within one invocation generation and validation alternate. The
\* attempt number counts up from 1 by one and equals the number of generation
\* calls made or about to be made; the validations never outnumber the
\* generation calls and are never more than one behind; the k-th validation
\* is of the code extracted from the k-th generation's response.
C28_StrictAlternation ==
    /\ attempt \in 1..MAX_ATTEMPTS
    /\ Len(attempts) <= gen_calls
    /\ gen_calls <= Len(attempts) + 1
    /\ pc = "Generating" => (gen_calls = attempt - 1 /\ Len(attempts) = gen_calls)
    /\ pc = "Calling" => (gen_calls = attempt /\ Len(attempts) = gen_calls - 1)
    /\ pc \in {"Validating", "Accepted", "Exhausted"} =>
            /\ gen_calls = attempt
            /\ Len(attempts) = gen_calls
            /\ attempts[attempt].response = response
            /\ attempts[attempt].code = generated_code
            /\ attempts[attempt].error = error_msg
    /\ \A k \in 1..Len(attempts) :
            /\ attempts[k].code = parse_code_from_response(attempts[k].response)
            /\ attempts[k].error = validate_python_code(attempts[k].code)

C28_Witness ==
    /\ pc = "Validating"
    /\ attempt = MAX_ATTEMPTS
    /\ gen_calls = MAX_ATTEMPTS
    /\ Len(attempts) = MAX_ATTEMPTS
    /\ attempts[2].response # attempts[3].response

\* C30: when the controller has returned through its success exit at attempt
\* k, the validator found the code extracted from the returned response valid
\* and found the code of every attempt before k invalid; and the success exit
\* is taken exactly when the validator's outcome is Valid, whatever the
\* attempt number.
C30_AcceptIffValid ==
    /\ pc = "Accepted" =>
            /\ attempt = Len(attempts)
            /\ returned = Str(attempts[attempt].response)
            /\ validate_python_code(
                   parse_code_from_response(returned.text)) = None
            /\ \A j \in 1..(attempt - 1) :
                   /\ validate_python_code(attempts[j].code) # None
                   /\ validate_python_code(attempts[j].code).text # <<>>
    /\ pc = "Validating" =>
            (ENABLED Accept <=> validate_python_code(generated_code) = None)
    /\ pc = "Exhausted" =>
            validate_python_code(parse_code_from_response(returned.text)) # None

C30_Witness ==
    /\ pc = "Accepted"
    /\ attempt = MAX_ATTEMPTS
    /\ attempts[1].error # None
    /\ attempts[2].error # None
    /\ attempts[3].error = None

\* The diagnostic of the k-th response in a history of generation calls.
DiagnosticOf(h, k) == Diagnostic[ExtractedCode[h[k].response]]

\* How an invocation ends, from its own generation calls alone: accepted when
\* the last response validates, exhausted otherwise; it returns that response.
Outcome(h) ==
    [pc |-> IF DiagnosticOf(h, Len(h)) = None THEN "Accepted" ELSE "Exhausted",
     returned |-> Str(h[Len(h)].response)]

\* C29: two invocations interleaved in any way share no state. Each makes at
\* most MAX_ATTEMPTS generation calls; each call's instruction is the
\* invocation's own initial prompt or the correction built from its own
\* previous response; and the state it ends in and the response it returns
\* are those its own responses and their validation outcomes determine.
C29_InvocationsIndependent ==
    \A i \in DOMAIN pair_frames :
        LET h == pair_calls[i]
            f == pair_frames[i]
            n == Len(h)
        IN  /\ n <= MAX_ATTEMPTS
            /\ n = IF f.pc = "Generating" THEN f.attempt - 1 ELSE f.attempt
            /\ \A k \in 1..n :
                 /\ h[k].prompt =
                      IF k = 1 THEN PairPrompts[i]
                      ELSE CorrectionPrompt(ExtractedCode[h[k - 1].response],
                                            DiagnosticOf(h, k - 1).text)
                 /\ h[k].user_code = IF k = 1 THEN PairCodes[i] ELSE <<>>
                 /\ k < n => DiagnosticOf(h, k) # None
            /\ n >= 1 => f.last_response = h[n].response
            /\ f.pc \in {"Accepted", "Exhausted"} =>
                 /\ f.pc = Outcome(h).pc
                 /\ f.returned = Outcome(h).returned
                 /\ f.pc = "Exhausted" => n = MAX_ATTEMPTS
            /\ f.pc \notin {"Accepted", "Exhausted"} => f.returned = None

\* Both invocations are under way at once, at different attempts.
C29_Witness ==
    /\ pair_frames # <<>>
    /\ pair_frames[1].pc = "Extracting"
    /\ pair_frames[2].pc = "Validating"
    /\ Len(pair_calls[1]) = 2
    /\ Len(pair_calls[2]) = 3
    /\ pair_calls[1][2].response # pair_calls[2][2].response

\* C31: when the code extracted from the response of attempt k is the empty
\* text, the validator finds it valid, attempt k is the last generation call,
\* and the controller returns that response.
C31_EmptyCodeAccepted ==
    \A k \in 1..Len(attempts) :
        parse_code_from_response(attempts[k].response) = <<>> =>
            /\ attempts[k].code = <<>>
            /\ attempts[k].error = None
            /\ Len(attempts) = k
            /\ gen_calls = k
            /\ pc \notin {"Generating", "Calling", "Exhausted"}
            /\ Returned => returned = Str(attempts[k].response)

C31_Witness ==
    /\ pc = "Accepted"
    /\ attempt = 2
    /\ generated_code = <<>>
    /\ returned = Str(<<"---CODE---", "\n">>)

\* C32: the network requests one invocation issues, over all its attempts
\* and their retries, number at most MAX_ATTEMPTS * MAX_RETRIES = 9, and
\* each generation call accounts for at most MAX_RETRIES of them.
C32_RequestBudget ==
    /\ MAX_ATTEMPTS * MAX_RETRIES = 9
    /\ requests <= MAX_ATTEMPTS * MAX_RETRIES
    /\ requests <= gen_calls * MAX_RETRIES

C32_Witness ==
    /\ Returned
    /\ requests = MAX_ATTEMPTS * MAX_RETRIES

\* C34: call_groq_api never returns its final fallback text. A call made with
\* the key present returns straight after a request, from inside the retry
\* loop: the content of a request that succeeded, the error-flagged text of
\* the last of MAX_RETRIES transient failures, or the text of the first
\* unexpected exception.
C34_FallbackUnreachable ==
    /\ MAX_RETRIES = 3
    /\ c_ret # Str(UnknownError)
    /\ returned # Str(UnknownError)
    /\ \A k \in 1..Len(attempts) : attempts[k].response # UnknownError
    /\ (cpc = "returned" /\ api_key) =>
            /\ c_log # <<>>
            /\ c_log[Len(c_log)].ev = "request"
            /\ \/ c_ret.text \in Responses
               \/ /\ Len(c_errors) = MAX_RETRIES
                  /\ c_ret.text = ExhaustedRetriesText(c_errors[MAX_RETRIES])
               \/ \E e \in ErrorDescriptions : c_ret.text = UnexpectedErrorText(e)

C34_Witness ==
    /\ cpc = "returned"
    /\ Len(c_errors) = MAX_RETRIES
    /\ ClientRequests = MAX_RETRIES
    /\ c_ret = Str(ExhaustedRetriesText(c_errors[MAX_RETRIES]))

====
